---------------------------- MODULE Spec2Model ----------------------------
(***************************************************************************)
(* A model of the citeproc-rs evaluation core and of its incremental       *)
(* Processor: the numeric locator parser, the cite context accessors, the  *)
(* style tree evaluator with its Choose controller, and the Processor's    *)
(* input setters, compute() and update log.                                *)
(*                                                                         *)
(* Conventions.  Option<T> is a sequence of length at most one: None is    *)
(* <<>> and Some(x) is <<x>>.  A Rust string is a sequence of one-letter   *)
(* strings.  Rust enums are records with a "kind" field.                   *)
(***************************************************************************)
EXTENDS Integers, Sequences, FiniteSets, TLC

VARIABLES
    \* --- one evaluation of the style tree (pure functions) ---
    arg,        \* the input of the evaluation: a Choose node and a cite context
    res,        \* its result, once evaluated
    pc,         \* "init" before the evaluation, "done" after it
    \* --- the Processor (crates/citeproc/src/db/mod.rs) ---
    save_updates,   \* Processor.save_updates
    queue,          \* Processor.queue: the DocUpdate::Cluster keys recorded
    db,             \* the salsa inputs the Processor sets
    memo,           \* the memoized built_cluster results, by cluster id
    calls,          \* the number of calls the host has made on the Processor
    \* --- what the last call did and returned (observation only) ---
    lastCall,       \* the last call: its name, writes, executed queries, result
    since_compute,  \* what was called since the last compute()
    since_drain,    \* the log was drained and no input was set since
    \* --- one parallel compute() (cfg(feature = "rayon")) ---
    phase,          \* "idle", "cites", "year_suffixes", "clusters" or "done"
    pending,        \* the items of the current par_iter no worker has taken yet
    worker,         \* each worker: its snapshot, position, query and salsa event
    running,        \* the queries that are being executed
    ir_memo,        \* the cites whose ir_gen2_add_given_name result is memoized
    qlock,          \* the holder of the queue's mutex, 0 when it is free
    execs           \* how often each query was executed in this compute()

evalVars == <<arg, res, pc>>
procVars == <<save_updates, queue, db, memo, calls, lastCall, since_compute, since_drain>>
parVars == <<phase, pending, worker, running, ir_memo, qlock, execs>>

None == <<>>
Some(x) == <<x>>
IsSome(o) == Len(o) > 0
Unwrap(o) == o[1]

Range(s) == {s[i] : i \in 1..Len(s)}

(***************************************************************************)
(* Bounds of the model.                                                    *)
(***************************************************************************)
MaxElseIf == 2      \* <else-if> branches of an enumerated Choose
MaxConds == 2       \* predicates in one enumerated condition set
MaxCondSets == 2    \* condition sets in one enumerated Conditions wrapper
MaxQueue == 2       \* recorded updates the log holds before it is drained
MaxCalls == 5       \* calls the host makes on one Processor
MaxLen == 4         \* characters of an enumerated numeric string
MaxNum == 2         \* the largest note number and discriminant of a compared position
MaxMacros == 2      \* <macro> nodes of an enumerated style
MaxElements == 2    \* rendering elements of an enumerated <layout>
MaxChildren == 4    \* child elements of an enumerated <choose>

(***************************************************************************)
(* Numeric locator parser (citeproc/src/input/numeric.rs).                 *)
(***************************************************************************)
Digits == <<"0", "1", "2", "3", "4", "5", "6", "7", "8", "9">>
DigitChars == Range(Digits)
SepChars == {",", "&", "-"}
\* is_not!(" ,&-01234567890") and is_not!(" ,&-")
NumPreStop == {" "} \cup SepChars \cup DigitChars
NumSufStop == {" "} \cup SepChars

DigitVal(c) == (CHOOSE i \in 1..10 : Digits[i] = c) - 1

Num(n) == [kind |-> "Num", num |-> n, text |-> <<>>]
Affixed(s) == [kind |-> "Affixed", num |-> 0, text |-> s]
Comma == [kind |-> "Comma", num |-> 0, text |-> <<>>]
Hyphen == [kind |-> "Hyphen", num |-> 0, text |-> <<>>]
Ampersand == [kind |-> "Ampersand", num |-> 0, text |-> <<>>]

Tokens(ts) == [kind |-> "Tokens", tokens |-> ts, str |-> <<>>]
Str(s) == [kind |-> "Str", tokens |-> <<>>, str |-> s]

Drop(s, n) == SubSeq(s, n + 1, Len(s))
Take(s, n) == SubSeq(s, 1, n)

\* the length of the longest prefix of s made of characters in set
RECURSIVE SpanIn(_, _)
SpanIn(s, set) ==
    IF s = <<>> \/ s[1] \notin set THEN 0 ELSE 1 + SpanIn(Tail(s), set)

\* the length of the longest prefix of s made of characters outside set
RECURSIVE SpanNotIn(_, _)
SpanNotIn(s, set) ==
    IF s = <<>> \/ s[1] \in set THEN 0 ELSE 1 + SpanNotIn(Tail(s), set)

\* A parser returns the number of characters it consumed, or Fail.
Fail == -1

\* digit1: one or more digits
digit1(s) == LET n == SpanIn(s, DigitChars) IN IF n = 0 THEN Fail ELSE n

\* is_not!: one or more characters outside the stop set
num_pre(s) == LET n == SpanNotIn(s, NumPreStop) IN IF n = 0 THEN Fail ELSE n
num_suf(s) == LET n == SpanNotIn(s, NumSufStop) IN IF n = 0 THEN Fail ELSE n

\* many0!(call!(num_pre)): apply until the first failure, keep what was consumed
RECURSIVE many0_num_pre(_)
many0_num_pre(s) ==
    LET n == num_pre(s) IN
    IF n = Fail THEN 0 ELSE n + many0_num_pre(Drop(s, n))

RECURSIVE many0_num_suf(_)
many0_num_suf(s) ==
    LET n == num_suf(s) IN
    IF n = Fail THEN 0 ELSE n + many0_num_suf(Drop(s, n))

\* many1!: as many0!, but the first application must succeed
many1_num_pre(s) == IF num_pre(s) = Fail THEN Fail ELSE many0_num_pre(s)
many1_num_suf(s) == IF num_suf(s) = Fail THEN Fail ELSE many0_num_suf(s)

\* u32::MAX, in decimal
U32MaxDigits == <<"4", "2", "9", "4", "9", "6", "7", "2", "9", "5">>

\* from_digits: str::parse::<u32> of a digit run: its decimal value, or Fail
\* (an Err) when the value does not fit in 32 bits
RECURSIVE from_digits_acc(_, _)
from_digits_acc(ds, acc) ==
    IF ds = <<>> THEN acc ELSE from_digits_acc(Tail(ds), acc * 10 + DigitVal(ds[1]))
from_digits(ds) ==
    LET z == Drop(ds, SpanIn(ds, {"0"}))
        i == SpanIn([k \in 1..Len(z) |-> IF Len(z) = 10 /\ z[k] = U32MaxDigits[k]
                                           THEN "=" ELSE "#"], {"="})
        fits == \/ Len(z) < 10
                \/ Len(z) = 10 /\ (i = 10 \/ DigitVal(z[i + 1]) < DigitVal(U32MaxDigits[i + 1]))
    IN  IF fits THEN from_digits_acc(z, 0) ELSE Fail

\* A token parser returns [len, tok]; len = Fail when it fails.
NoTok == [len |-> Fail, tok |-> Comma]

\* prefix1: recognize!(tuple!(many1!(num_pre), digit1, many0!(num_suf)))
prefix1(s) ==
    LET a == many1_num_pre(s) IN
    IF a = Fail THEN NoTok ELSE
    LET b == digit1(Drop(s, a)) IN
    IF b = Fail THEN NoTok ELSE
    LET c == many0_num_suf(Drop(s, a + b)) IN
    [len |-> a + b + c, tok |-> Affixed(Take(s, a + b + c))]

\* suffix1: recognize!(tuple!(many0!(num_pre), digit1, many1!(num_suf)))
suffix1(s) ==
    LET a == many0_num_pre(s) IN
    LET b == digit1(Drop(s, a)) IN
    IF b = Fail THEN NoTok ELSE
    LET c == many1_num_suf(Drop(s, a + b)) IN
    IF c = Fail THEN NoTok ELSE
    [len |-> a + b + c, tok |-> Affixed(Take(s, a + b + c))]

\* num: map!(int, Num), int = map_res!(digit1, from_digits)
num(s) ==
    LET n == digit1(s) IN
    IF n = Fail THEN NoTok ELSE
    LET v == from_digits(Take(s, n)) IN
    IF v = Fail THEN NoTok ELSE [len |-> n, tok |-> Num(v)]

\* alt!: the first alternative when it succeeded, else the second
Alt(first, second) == IF first.len # Fail THEN first ELSE second

num_ish_plain_number_first(s) == Alt(num(s), Alt(prefix1(s), suffix1(s)))

\* num_ish: alt!(prefix1 | suffix1 | num)
num_ish(s) == Alt(prefix1(s), Alt(suffix1(s), num(s)))

sep_from(c) == IF c = "," THEN Comma ELSE IF c = "-" THEN Hyphen ELSE Ampersand

\* sep: delimited!(many0!(char!(' ')), one_of!(",&-"), many0!(char!(' ')))
sep(s) ==
    LET a == SpanIn(s, {" "}) IN
    IF a >= Len(s) \/ s[a + 1] \notin SepChars THEN NoTok ELSE
    LET c == SpanIn(Drop(s, a + 1), {" "}) IN
    [len |-> a + 1 + c, tok |-> sep_from(s[a + 1])]

\* A parser of a token list returns [len, toks].  Each step of one takes the
\* results of the steps before it as arguments.
NoToks == [len |-> 0, toks |-> <<>>]
\* the tokens of front, len characters long, then the list r parsed after them
Push(front, len, r) == [len |-> len + r.len, toks |-> front \o r.toks]

RECURSIVE many0_sep_num_ish(_)
RECURSIVE pair_after_sep(_, _)
RECURSIVE pair_after_num_ish(_, _, _)
many0_sep_num_ish_keeps_sep(s) ==
    LET p == sep(s) IN
    IF p.len = Fail THEN NoToks ELSE
    LET q == num_ish(Drop(s, p.len)) IN
    IF q.len = Fail THEN [len |-> p.len, toks |-> <<p.tok>>] ELSE
    Push(<<p.tok, q.tok>>, p.len + q.len, many0_sep_num_ish(Drop(s, p.len + q.len)))

\* many0!(tuple!(sep, num_ish)): [len, toks] of the pairs parsed before the
\* first failure; a failed pair consumes nothing
many0_sep_num_ish(s) == pair_after_sep(s, sep(s))
\* p: the result of sep
pair_after_sep(s, p) ==
    IF p.len = Fail THEN NoToks ELSE pair_after_num_ish(s, p, num_ish(Drop(s, p.len)))
\* q: the result of num_ish after sep
pair_after_num_ish(s, p, q) ==
    IF q.len = Fail THEN NoToks
    ELSE Push(<<p.tok, q.tok>>, p.len + q.len, many0_sep_num_ish(Drop(s, p.len + q.len)))

\* n: the result of the first num_ish
tokens_after_num_ish(s, n) ==
    IF n.len = Fail THEN [len |-> Fail, toks |-> <<>>]
    ELSE Push(<<n.tok>>, n.len, many0_sep_num_ish(Drop(s, n.len)))

\* num_tokens: tuple!(num_ish, many0!(tuple!(sep, num_ish))), flattened
num_tokens(s) == tokens_after_num_ish(s, num_ish(s))

\* if let Ok((remainder, parsed)) = .. { if remainder.is_empty() { .. } }
from_parsed_ignores_remainder(s, p) ==
    IF p.len # Fail THEN Tokens(p.toks) ELSE Str(s)
from_parsed(s, p) ==
    IF p.len # Fail /\ p.len = Len(s) THEN Tokens(p.toks) ELSE Str(s)

NumericValueFrom_ignores_remainder(s) == from_parsed_ignores_remainder(s, num_tokens(s))

\* impl From<&str> for NumericValue
NumericValueFrom(s) == from_parsed(s, num_tokens(s))

\* format!("{}", i) of a u32
RECURSIVE FormatU32(_)
FormatU32(n) ==
    IF n < 10 THEN <<Digits[n + 1]>> ELSE FormatU32(n \div 10) \o <<Digits[(n % 10) + 1]>>

RECURSIVE tokens_to_string(_)
RECURSIVE tokens_to_string_spaced_hyphen(_)
RECURSIVE tokens_to_string_ampersand_word(_)
tokens_to_string_ampersand_word(ts) ==
    IF ts = <<>> THEN <<>> ELSE
    LET t == ts[1] IN
    (CASE t.kind = "Num" -> FormatU32(t.num)
       [] t.kind = "Affixed" -> t.text
       [] t.kind = "Comma" -> <<",", " ">>
       [] t.kind = "Hyphen" -> <<"-">>
       [] t.kind = "Ampersand" -> <<" ", "a", "n", "d", " ">>)
    \o tokens_to_string_ampersand_word(Tail(ts))

tokens_to_string_spaced_hyphen(ts) ==
    IF ts = <<>> THEN <<>> ELSE
    LET t == ts[1] IN
    (CASE t.kind = "Num" -> FormatU32(t.num)
       [] t.kind = "Affixed" -> t.text
       [] t.kind = "Comma" -> <<",", " ">>
       [] t.kind = "Hyphen" -> <<" ", "-", " ">>
       [] t.kind = "Ampersand" -> <<" ", "&", " ">>)
    \o tokens_to_string_spaced_hyphen(Tail(ts))

tokens_to_string(ts) ==
    IF ts = <<>> THEN <<>> ELSE
    LET t == ts[1] IN
    (CASE t.kind = "Num" -> FormatU32(t.num)
       [] t.kind = "Affixed" -> t.text
       [] t.kind = "Comma" -> <<",", " ">>
       [] t.kind = "Hyphen" -> <<"-">>
       [] t.kind = "Ampersand" -> <<" ", "&", " ">>)
    \o tokens_to_string(Tail(ts))

\* NumericValue::to_string
to_string(v) == IF v.kind = "Tokens" THEN tokens_to_string(v.tokens) ELSE v.str

\* NumericValue::num, is_numeric, is_multiple, first_num, page_first
NumericValue_num(i) == Tokens(<<Num(i)>>)
NV_is_numeric(v) == v.kind = "Tokens"
NV_is_multiple(v) == v.kind = "Tokens" /\ Len(v.tokens) > 1
get_num(t) == IF t.kind = "Num" THEN Some(t.num) ELSE None
first_num_of_any_token(v) ==
    LET nums == SelectSeq(v.tokens, LAMBDA t : t.kind = "Num") IN
    IF nums # <<>> THEN Some(nums[1].num) ELSE None

first_num(v) ==
    IF v.kind = "Tokens" /\ v.tokens # <<>> THEN get_num(v.tokens[1]) ELSE None
page_first(v) ==
    IF IsSome(first_num(v)) THEN Some(NumericValue_num(Unwrap(first_num(v)))) ELSE None

(***************************************************************************)
(* Variables of the style language and the data a cite context holds.      *)
(***************************************************************************)
NumberVar(n) == [cat |-> "Number", name |-> n]
OrdinaryVar(n) == [cat |-> "Ordinary", name |-> n]
NameVar(n) == [cat |-> "Name", name |-> n]
DateVar(n) == [cat |-> "Date", name |-> n]

\* HashMap::get on one of the reference's four maps
MapGet(map, key) == IF key \in DOMAIN map THEN map[key] ELSE None

\* Date and DateOrRange (citeproc_io)
Date(m, d) == [month |-> m, day |-> d]
DateSingle(d) == [kind |-> "Single", d1 |-> d, d2 |-> d]
DateRange(a, b) == [kind |-> "Range", d1 |-> a, d2 |-> b]
DateLiteral == [kind |-> "Literal", d1 |-> Date(0, 0), d2 |-> Date(0, 0)]

\* DisambPass; ctx.disamb_pass is an Option of it
DisambPasses == {"AddNames", "AddYearSuffix", "Conditionals"}

(***************************************************************************)
(* Context accessors (crates/citeproc-proc/src/cite_context.rs).           *)
(***************************************************************************)
ref_has_variable(refr, var) ==
    CASE var.cat = "Ordinary" -> IsSome(MapGet(refr.ordinary, var.name))
      [] var.cat = "Number" -> IsSome(MapGet(refr.number, var.name))
      [] var.cat = "Name" -> IsSome(MapGet(refr.name, var.name))
      [] var.cat = "Date" -> IsSome(MapGet(refr.date, var.name))

get_number_locator_of_the_reference(ctx, v) ==
    CASE v = "first-reference-note-number" ->
            IF IsSome(ctx.position[2])
            THEN Some(NumericValue_num(Unwrap(ctx.position[2]))) ELSE None
      [] v = "citation-number" ->
            IF IsSome(ctx.bib_number)
            THEN Some(NumericValue_num(Unwrap(ctx.bib_number))) ELSE None
      [] v = "page-first" ->
            LET pp == MapGet(ctx.reference.number, "page") IN
            IF IsSome(pp) THEN page_first(Unwrap(pp)) ELSE None
      [] OTHER -> MapGet(ctx.reference.number, v)

get_number(ctx, v) ==
    CASE v = "locator" ->
            IF ctx.cite.locators # <<>> THEN Some(ctx.cite.locators[1].value) ELSE None
      [] v = "first-reference-note-number" ->
            IF IsSome(ctx.position[2])
            THEN Some(NumericValue_num(Unwrap(ctx.position[2]))) ELSE None
      [] v = "citation-number" ->
            IF IsSome(ctx.bib_number)
            THEN Some(NumericValue_num(Unwrap(ctx.bib_number))) ELSE None
      [] v = "page-first" ->
            LET pp == MapGet(ctx.reference.number, "page") IN
            IF IsSome(pp) THEN page_first(Unwrap(pp)) ELSE None
      [] OTHER -> MapGet(ctx.reference.number, v)

is_numeric(ctx, var) ==
    IF var.cat = "Number"
    THEN LET r == get_number(ctx, var.name) IN
         IF IsSome(r) THEN NV_is_numeric(Unwrap(r)) ELSE FALSE
    ELSE FALSE

has_variable_of_the_reference(ctx, var) ==
    CASE var = NameVar("dummy") -> FALSE
      [] OTHER -> ref_has_variable(ctx.reference, var)

has_variable(ctx, var) ==
    CASE var = NameVar("dummy") -> FALSE
      [] var = NumberVar("locator") -> ctx.cite.locators # <<>>
      [] var = NumberVar("page-first") -> is_numeric(ctx, NumberVar("page"))
      [] var = NumberVar("first-reference-note-number") -> IsSome(ctx.position[2])
      [] var = NumberVar("citation-number") -> IsSome(ctx.bib_number)
      [] OTHER -> ref_has_variable(ctx.reference, var)

(***************************************************************************)
(* Conditions (crates/citeproc-proc/src/choose.rs).                        *)
(***************************************************************************)
CondVariable(var) == [kind |-> "Variable", var |-> var, d |-> FALSE]
CondIsNumeric(var) == [kind |-> "IsNumeric", var |-> var, d |-> FALSE]
CondDisambiguate(d) == [kind |-> "Disambiguate", var |-> NameVar("dummy"), d |-> d]
CondHasYearOnly(dv) == [kind |-> "HasYearOnly", var |-> DateVar(dv), d |-> FALSE]
CondHasMonthOrSeason(dv) == [kind |-> "HasMonthOrSeason", var |-> DateVar(dv), d |-> FALSE]
CondHasDay(dv) == [kind |-> "HasDay", var |-> DateVar(dv), d |-> FALSE]

DateShapeKinds == {"HasYearOnly", "HasMonthOrSeason", "HasDay"}

Matches == {"All", "Any", "None", "Nand"}
CondSet(m, conds) == [match_type |-> m, conds |-> conds]
Conditions(m, sets) == [match_type |-> m, sets |-> sets]

\* Iterator::any and Iterator::all, as loops over the sequence of booleans
RECURSIVE IterAny(_, _)
IterAny(bools, want) ==
    IF bools = <<>> THEN FALSE
    ELSE IF bools[1] = want THEN TRUE ELSE IterAny(Tail(bools), want)

RECURSIVE IterAll(_, _)
IterAll(bools, want) ==
    IF bools = <<>> THEN TRUE
    ELSE IF bools[1] # want THEN FALSE ELSE IterAll(Tail(bools), want)

run_matcher_nand_as_none(bools, match_type) ==
    CASE match_type = "Any" -> IterAny(bools, TRUE)
      [] match_type = "Nand" -> IterAll(bools, FALSE)
      [] match_type = "All" -> IterAll(bools, TRUE)
      [] match_type = "None" -> IterAll(bools, FALSE)

run_matcher(bools, match_type) ==
    CASE match_type = "Any" -> IterAny(bools, TRUE)
      [] match_type = "Nand" -> IterAny(bools, FALSE)
      [] match_type = "All" -> IterAll(bools, TRUE)
      [] match_type = "None" -> IterAll(bools, FALSE)

\* the three date-shape tests, on the reference's date variable
DateShape(kind, ctx, dvar) ==
    LET g == MapGet(ctx.reference.date, dvar) IN
    IF ~IsSome(g) THEN FALSE ELSE
    LET dor == Unwrap(g) IN
    CASE dor.kind = "Literal" -> FALSE
      [] dor.kind = "Single" /\ kind = "HasYearOnly" ->
            dor.d1.month = 0 /\ dor.d1.day = 0
      [] dor.kind = "Range" /\ kind = "HasYearOnly" ->
            dor.d1.month = 0 /\ dor.d1.day = 0 /\ dor.d2.month = 0 /\ dor.d2.day = 0
      [] dor.kind = "Single" /\ kind = "HasMonthOrSeason" -> dor.d1.month # 0
      [] dor.kind = "Range" /\ kind = "HasMonthOrSeason" ->
            dor.d1.month # 0 \/ dor.d2.month # 0
      [] dor.kind = "Single" /\ kind = "HasDay" -> dor.d1.day # 0
      [] dor.kind = "Range" /\ kind = "HasDay" -> dor.d1.day # 0 \/ dor.d2.day # 0

EvalCond_disambiguate_in_any_pass(cond, ctx) ==
    CASE cond.kind = "Variable" -> Some(has_variable(ctx, cond.var))
      [] cond.kind = "IsNumeric" -> Some(is_numeric(ctx, cond.var))
      [] cond.kind = "Disambiguate" -> Some(cond.d = IsSome(ctx.disamb_pass))
      [] cond.kind = "Type" -> Some(ctx.reference.csl_type = cond.typ)
      [] cond.kind \in DateShapeKinds /\ ~ctx.style.features.condition_date_parts -> None
      [] cond.kind \in DateShapeKinds /\ ctx.style.features.condition_date_parts ->
            Some(DateShape(cond.kind, ctx, cond.var.name))
      [] OTHER -> None

EvalCond_date_parts_off_is_false(cond, ctx) ==
    CASE cond.kind = "Variable" -> Some(has_variable(ctx, cond.var))
      [] cond.kind = "IsNumeric" -> Some(is_numeric(ctx, cond.var))
      [] cond.kind = "Disambiguate" ->
            Some(cond.d = (ctx.disamb_pass = Some("Conditionals")))
      [] cond.kind = "Type" -> Some(ctx.reference.csl_type = cond.typ)
      [] cond.kind \in DateShapeKinds /\ ~ctx.style.features.condition_date_parts ->
            Some(FALSE)
      [] cond.kind \in DateShapeKinds /\ ctx.style.features.condition_date_parts ->
            Some(DateShape(cond.kind, ctx, cond.var.name))
      [] OTHER -> None

\* one predicate of the filter_map: Some(bool), or None when it is left out
EvalCond(cond, ctx) ==
    CASE cond.kind = "Variable" -> Some(has_variable(ctx, cond.var))
      [] cond.kind = "IsNumeric" -> Some(is_numeric(ctx, cond.var))
      [] cond.kind = "Disambiguate" ->
            Some(cond.d = (ctx.disamb_pass = Some("Conditionals")))
      [] cond.kind = "Type" -> Some(ctx.reference.csl_type = cond.typ)
      [] cond.kind \in DateShapeKinds /\ ~ctx.style.features.condition_date_parts -> None
      [] cond.kind \in DateShapeKinds /\ ctx.style.features.condition_date_parts ->
            Some(DateShape(cond.kind, ctx, cond.var.name))
      [] OTHER -> None

\* iter_all: the predicates of a condition set that contribute a boolean
RECURSIVE CondPreds(_, _)
CondPreds(conds, ctx) ==
    IF conds = <<>> THEN <<>>
    ELSE EvalCond(conds[1], ctx) \o CondPreds(Tail(conds), ctx)

eval_condset(cond_set, ctx) ==
    run_matcher(CondPreds(cond_set.conds, ctx), cond_set.match_type)

HasDisambiguateCond(cond_set) ==
    \E i \in 1..Len(cond_set.conds) :
        cond_set.conds[i] \in {CondDisambiguate(TRUE), CondDisambiguate(FALSE)}

eval_conditions_wrap_always(conditions, ctx) ==
    [matched |-> run_matcher([i \in 1..Len(conditions.sets) |->
                                 eval_condset(conditions.sets[i], ctx)],
                             conditions.match_type),
     disambiguate |-> \E i \in 1..Len(conditions.sets) :
                           HasDisambiguateCond(conditions.sets[i])]

eval_conditions_never_disambiguate(conditions, ctx) ==
    [matched |-> run_matcher([i \in 1..Len(conditions.sets) |->
                                 eval_condset(conditions.sets[i], ctx)],
                             conditions.match_type),
     disambiguate |-> FALSE]

\* (match result, disambiguate=true)
eval_conditions(conditions, ctx) ==
    [matched |-> run_matcher([i \in 1..Len(conditions.sets) |->
                                 eval_condset(conditions.sets[i], ctx)],
                             conditions.match_type),
     disambiguate |-> (\E i \in 1..Len(conditions.sets) :
                           HasDisambiguateCond(conditions.sets[i]))
                      /\ ctx.disamb_pass # Some("Conditionals")]

(***************************************************************************)
(* Style elements and the intermediate representation                      *)
(* (citeproc/src/proc/mod.rs).  Formatting and affixes are handed to the   *)
(* output format untouched, so an element keeps only what the evaluator    *)
(* itself reads.                                                           *)
(***************************************************************************)
ElConst(val) == [kind |-> "Const", val |-> val]
ElNumber(var) == [kind |-> "Number", var |-> var]
ElChoose(ch) == [kind |-> "Choose", choose |-> ch]
ElMacro(name) == [kind |-> "Macro", name |-> name]
\* Element::Variable of a StandardVariable (Ordinary or Number)
ElVariable(var) == [kind |-> "Variable", var |-> var]
ElTerm(sel, pl) == [kind |-> "Term", sel |-> sel, plural |-> pl]
\* plural: "Contextual", "Always" or "Never"
ElLabel(var, form, pl) == [kind |-> "Label", var |-> var, form |-> form, plural |-> pl]

IfThen(conditions, elements) == [conditions |-> conditions, elements |-> elements]
Choose(head, rest, last) == [head |-> head, rest |-> rest, last |-> last]

Rendered(o) == [kind |-> "Rendered", text |-> o]
\* the evaluation panicked: .expect() on a None
Panic == [kind |-> "Panic"]
IRSeq(contents) == [kind |-> "Seq", contents |-> contents]
ConditionalDisamb(ch, content) ==
    [kind |-> "ConditionalDisamb", choose |-> ch, content |-> content]

\* OutputFormat::affixed_text with the default affixes and no formatting
affixed_text(text) == text

\* What one evaluation returns: the IR, and the branches of its own Choose
\* whose conditions and whose bodies it evaluated, in order (the <if> is
\* branch 0, the <else-if>s are 1..n, the <else> is n + 1).
Eval(ir, sel, conds, bodies) ==
    [ir |-> ir, selected |-> sel, conds |-> conds, bodies |-> bodies]
Leaf(ir) == Eval(ir, -1, <<>>, <<>>)

\* one iteration of the loop over the <else-if> branches: found = content,
\* disamb = disamb || disambiguate
branch_step(br, i, st) ==
    [found |-> br.content,
     disamb |-> st.disamb \/ br.disambiguate,
     selected |-> IF IsSome(br.content) THEN i ELSE st.selected,
     conds |-> Append(st.conds, i),
     bodies |-> IF IsSome(br.content) THEN Append(st.bodies, i) ELSE st.bodies]

\* Term selectors: a simple term, the term of a number variable, the term of
\* a locator type
SimpleTerm(name, form) == [kind |-> "Simple", name |-> name, form |-> form]
NumberTerm(var, form) == [kind |-> "Number", name |-> var, form |-> form]
LocatorTerm(type, form) == [kind |-> "Locator", name |-> type, form |-> form]

\* GenderedTermSelector::from_number_variable: the locator's term is that of
\* the cite's locator type, and there is none when the cite has no locator
from_number_variable(locator_type, var, form) ==
    IF var = "locator"
    THEN IF IsSome(locator_type) THEN Some(LocatorTerm(Unwrap(locator_type), form)) ELSE None
    ELSE Some(NumberTerm(var, form))

\* the term provider: Locale::get_text_term(selector, plural) -> Option<text>
get_text_term(locale, sel, pl) ==
    IF <<sel, pl>> \in DOMAIN locale THEN Some(locale[<<sel, pl>>]) ELSE None

\* the Label arm's match (num_val, pl)
label_plural(num_val, pl) ==
    IF ~IsSome(num_val) THEN None
    ELSE CASE pl = "Contextual" -> Some(NV_is_multiple(Unwrap(num_val)))
           [] pl = "Always" -> Some(TRUE)
           [] pl = "Never" -> Some(FALSE)

\* .map(|val| fmt.affixed_text(..)) on an Option, wrapped in IR::Rendered
RenderedText(o) == Rendered(IF IsSome(o) THEN Some(affixed_text(Unwrap(o))) ELSE None)

RECURSIVE element_intermediate(_, _)
RECURSIVE sequence(_, _)
RECURSIVE eval_ifthen(_, _)
RECURSIVE else_if_loop(_, _, _, _)
RECURSIVE else_if_loop_no_break(_, _, _, _)
RECURSIVE choose_intermediate(_, _)

\* impl Proc for Element
element_intermediate(el, ctx) ==
    CASE el.kind = "Choose" -> choose_intermediate(el.choose, ctx).ir
      [] el.kind = "Macro" ->
            IF el.name \in DOMAIN ctx.style.macros
            THEN sequence(ctx.style.macros[el.name], ctx)
            ELSE Panic
      [] el.kind = "Const" -> Rendered(Some(affixed_text(el.val)))
      [] el.kind = "Variable" /\ el.var.cat = "Ordinary" ->
            RenderedText(MapGet(ctx.reference.ordinary, el.var.name))
      [] el.kind = "Variable" /\ el.var.cat = "Number" ->
            LET n == MapGet(ctx.reference.number, el.var.name) IN
            Rendered(IF IsSome(n) THEN Some(affixed_text(to_string(Unwrap(n)))) ELSE None)
      [] el.kind = "Term" ->
            \* .get("en-GB").unwrap()
            IF "en-GB" \notin DOMAIN ctx.style.locale_overrides THEN Panic
            ELSE RenderedText(get_text_term(ctx.style.locale_overrides["en-GB"],
                                            el.sel, el.plural))
      [] el.kind = "Label" ->
            LET selector == from_number_variable(ctx.cite.locator_type, el.var, el.form)
                plural == label_plural(get_number(ctx, el.var), el.plural)
            IN  IF ~IsSome(plural) \/ ~IsSome(selector) THEN Rendered(None)
                ELSE IF "en-GB" \notin DOMAIN ctx.style.locale_overrides THEN Panic
                ELSE RenderedText(get_text_term(ctx.style.locale_overrides["en-GB"],
                                                Unwrap(selector), Unwrap(plural)))
      [] el.kind = "Number" ->
            LET n == get_number(ctx, el.var) IN
            Rendered(IF IsSome(n) THEN Some(affixed_text(to_string(Unwrap(n)))) ELSE None)

\* helpers::sequence with an empty delimiter: the children's IR, in order
sequence(els, ctx) ==
    IRSeq([i \in 1..Len(els) |-> element_intermediate(els[i], ctx)])

\* BranchEval {disambiguate, content}
eval_ifthen(branch, ctx) ==
    LET ec == eval_conditions(branch.conditions, ctx) IN
    [disambiguate |-> ec.disambiguate,
     content |-> IF ec.matched THEN Some(sequence(branch.elements, ctx)) ELSE None]

else_if_loop_no_break(rest, i, st, ctx) ==
    IF i > Len(rest) THEN st
    ELSE else_if_loop_no_break(rest, i + 1,
                               branch_step(eval_ifthen(rest[i], ctx), i, st), ctx)

\* for branch in rest.iter() { if found.is_some() { break; } ... }
else_if_loop(rest, i, st, ctx) ==
    IF i > Len(rest) THEN st
    ELSE IF IsSome(st.found) THEN st
    ELSE else_if_loop(rest, i + 1, branch_step(eval_ifthen(rest[i], ctx), i, st), ctx)

\* impl Proc for Arc<Choose>
choose_intermediate(ch, ctx) ==
    LET wrap(disamb, content) ==
            IF disamb THEN ConditionalDisamb(ch, content) ELSE content
        h == eval_ifthen(ch.head, ctx)
    IN  IF IsSome(h.content)
        THEN Eval(wrap(h.disambiguate, Unwrap(h.content)), 0, <<0>>, <<0>>)
        ELSE
        LET st == else_if_loop(ch.rest, 1,
                               [found |-> None, disamb |-> h.disambiguate,
                                selected |-> -1, conds |-> <<0>>, bodies |-> <<>>],
                               ctx)
        IN  IF IsSome(st.found)
            THEN Eval(wrap(st.disamb, Unwrap(st.found)), st.selected, st.conds, st.bodies)
            ELSE Eval(wrap(st.disamb, sequence(ch.last, ctx)),
                      Len(ch.rest) + 1, st.conds, Append(st.bodies, Len(ch.rest) + 1))

\* IR::flatten with an empty delimiter: the text of the rendered leaves, in order
RECURSIVE flatten(_)
RECURSIVE flatten_all(_)
flatten(ir) ==
    CASE ir.kind = "Rendered" -> IF IsSome(ir.text) THEN Unwrap(ir.text) ELSE <<>>
      [] ir.kind = "ConditionalDisamb" -> flatten(ir.content)
      [] ir.kind = "Seq" -> flatten_all(ir.contents)
flatten_all(irs) ==
    IF irs = <<>> THEN <<>> ELSE flatten(irs[1]) \o flatten_all(Tail(irs))

\* a panic unwinds through every evaluation that contains it
RECURSIVE Panics(_)
Panics(ir) ==
    CASE ir.kind = "Panic" -> TRUE
      [] ir.kind = "Rendered" -> FALSE
      [] ir.kind = "ConditionalDisamb" -> Panics(ir.content)
      [] ir.kind = "Seq" -> \E i \in 1..Len(ir.contents) : Panics(ir.contents[i])

\* impl Proc for Style: the <layout> of its <citation>
style_intermediate(style, ctx) ==
    LET ir == sequence(style.citation.layout.elements, ctx) IN
    IF Panics(ir) THEN Panic ELSE ir

(***************************************************************************)
(* Building a style from its XML tree (citeproc/src/style.rs).  An XML     *)
(* node keeps the attributes and children these functions read; a Result   *)
(* is [ok, val].                                                           *)
(***************************************************************************)
Ok(x) == [ok |-> TRUE, val |-> x]
Err == [ok |-> FALSE, val |-> "InvalidCsl"]

TextNode(macro, value) == [tag |-> "text", macro |-> macro, value |-> value]
MacroNode(name, children) == [tag |-> "macro", name |-> name, children |-> children]
CitationNode(layouts) == [tag |-> "citation", layouts |-> layouts]
StyleNode(macros, citations) == [tag |-> "style", macros |-> macros, citations |-> citations]

\* text_el: the macro attribute is looked at first, then value
text_el(node) ==
    IF IsSome(node.macro) THEN Ok(ElMacro(Unwrap(node.macro)))
    ELSE IF IsSome(node.value) THEN Ok(ElConst(Unwrap(node.value)))
    ELSE Err

\* .map(|el| Element::from_node(&el)) collected into one Result
elements_from_nodes(children) ==
    IF \E i \in 1..Len(children) : ~text_el(children[i]).ok THEN Err
    ELSE Ok([i \in 1..Len(children) |-> text_el(children[i]).val])

\* impl FromNode for MacroMap
MacroMap_from_node(node) ==
    IF ~IsSome(node.name) THEN Err
    ELSE IF ~elements_from_nodes(node.children).ok THEN Err
    ELSE Ok([name |-> Unwrap(node.name),
             elements |-> elements_from_nodes(node.children).val])

\* impl FromNode for Citation, with Layout::from_node of its one <layout>
Citation_from_node(node) ==
    IF Len(node.layouts) # 1 THEN Err
    ELSE IF ~elements_from_nodes(node.layouts[1]).ok THEN Err
    ELSE Ok([layout |-> [elements |-> elements_from_nodes(node.layouts[1]).val]])

\* impl FromNode for Style: the macros are inserted in document order, a
\* later one of the same name replacing the earlier one; then the one
\* <citation> is built (get_toplevel)
Style_from_node(node) ==
    LET macs == [i \in 1..Len(node.macros) |-> MacroMap_from_node(node.macros[i])]
        names == {macs[i].val.name : i \in {j \in 1..Len(macs) : macs[j].ok}}
        lastOf(n) == CHOOSE i \in 1..Len(macs) :
                        /\ macs[i].val.name = n
                        /\ \A j \in (i + 1)..Len(macs) : macs[j].val.name # n
    IN  IF \E i \in 1..Len(macs) : ~macs[i].ok THEN Err
        ELSE IF Len(node.citations) # 1 THEN Err
        ELSE IF ~Citation_from_node(node.citations[1]).ok THEN Err
        ELSE Ok([macros |-> [n \in names |-> macs[lastOf(n)].val.elements],
                 citation |-> Citation_from_node(node.citations[1]).val,
                 features |-> [condition_date_parts |-> FALSE]])

\* The children of a <choose>.  An <if> or <else-if> node keeps what
\* Condition::from_node_custom made of its own attributes (own: a condition,
\* "Unconditional" when it has none, "Invalid" when one is malformed), what
\* max1_child made of its <conditions> children (sub), and its other
\* children; an <else> keeps its children.
OwnOk(cond) == [res |-> "Ok", cond |-> cond]
OwnUnconditional == [res |-> "Unconditional", cond |-> CondSet("All", <<>>)]
OwnInvalid == [res |-> "Invalid", cond |-> CondSet("All", <<>>)]
BranchNode(tag, own, sub, children) ==
    [tag |-> tag, own |-> own, sub |-> sub, children |-> children]
ElseNode(children) ==
    [tag |-> "else", own |-> OwnUnconditional, sub |-> Ok(None), children |-> children]
OtherNode(tag) ==
    [tag |-> tag, own |-> OwnUnconditional, sub |-> Ok(None), children |-> <<>>]

\* impl FromNode for IfThen: the match on (own_conditions, sub_conditions),
\* then the elements
IfThen_conditions(own, sub) ==
    CASE own.res = "Ok" /\ sub.ok /\ sub.val = None ->
            Ok(Conditions("All", <<own.cond>>))
      [] own.res # "Ok" /\ sub.ok /\ sub.val = None -> Err
      [] own.res = "Unconditional" /\ ~sub.ok -> Err
      [] own.res = "Unconditional" /\ sub.ok /\ sub.val # None -> Ok(Unwrap(sub.val))
      [] OTHER -> Err

IfThen_built(conditions, elements) ==
    IF ~conditions.ok \/ ~elements.ok THEN Err
    ELSE Ok(IfThen(conditions.val, elements.val))

IfThen_from_node(node) ==
    IfThen_built(IfThen_conditions(node.own, node.sub), elements_from_nodes(node.children))

\* impl FromNode for Else
Else_from_node(node) == elements_from_nodes(node.children)

\* the variables of choose_el before its loop
ChooseStart ==
    [if_block |-> None, elseifs |-> <<>>, else_block |-> <<>>,
     seen_if |-> FALSE, seen_else |-> FALSE]

RECURSIVE choose_loop(_, _)
RECURSIVE choose_step(_, _, _)
\* the rest of the loop after a child that was built, or the child's error
choose_continue(els, built, st) ==
    IF ~built.ok THEN Err ELSE choose_loop(Tail(els), st)

choose_step_else_if_anywhere(els, el, st) ==
    IF ~st.seen_if
    THEN IF el.tag = "if"
         THEN LET b == IfThen_from_node(el) IN
              choose_continue(els, b, [st EXCEPT !.seen_if = TRUE, !.if_block = Some(b.val)])
         ELSE Err
    ELSE IF el.tag = "else-if"
         THEN LET b == IfThen_from_node(el) IN
              choose_continue(els, b, [st EXCEPT !.elseifs = Append(@, b.val)])
    ELSE IF ~st.seen_else /\ el.tag = "else"
         THEN LET b == Else_from_node(el) IN
              choose_continue(els, b, [st EXCEPT !.seen_else = TRUE, !.else_block = b.val])
    ELSE Err

\* one iteration of for el in els.into_iter() { .. }
choose_step(els, el, st) ==
    IF ~st.seen_if
    THEN IF el.tag = "if"
         THEN LET b == IfThen_from_node(el) IN
              choose_continue(els, b, [st EXCEPT !.seen_if = TRUE, !.if_block = Some(b.val)])
         ELSE Err
    ELSE IF ~st.seen_else
    THEN IF el.tag = "else-if"
         THEN LET b == IfThen_from_node(el) IN
              choose_continue(els, b, [st EXCEPT !.elseifs = Append(@, b.val)])
         ELSE IF el.tag = "else"
         THEN LET b == Else_from_node(el) IN
              choose_continue(els, b, [st EXCEPT !.seen_else = TRUE, !.else_block = b.val])
         ELSE Err
    ELSE Err

\* the loop, then if_block.ok_or_else(..)? and the Choose
choose_loop(els, st) ==
    IF els # <<>> THEN choose_step(els, els[1], st)
    ELSE IF ~IsSome(st.if_block) THEN Err
    ELSE Ok(ElChoose(Choose(Unwrap(st.if_block), st.elseifs, st.else_block)))

\* choose_el
choose_el(els) == choose_loop(els, ChooseStart)

(***************************************************************************)
(* The inputs of an evaluation: a Choose node and a cite context.          *)
(***************************************************************************)
SeqsOf(S, lo, hi) == UNION {[1..n -> S] : n \in lo..hi}

Text_5_7 == <<"5", "-", "7">>
Text_2nd == <<"2", "n", "d">>
Text_5_comma == <<"5", ",">>
NoPage == <<"N", "o", " ", "p", "a", "g", "e">>

\* the page variable as the host gives it
PageStrings == {Text_5_7, Text_2nd, Text_5_comma}
PageValues == {None} \cup {Some(NumericValueFrom(s)) : s \in PageStrings}
IssuedValues == {None, Some(DateSingle(Date(0, 0))), Some(DateSingle(Date(5, 17)))}

Reference(page, issued) ==
    [ordinary |-> <<>>,
     number |-> [v \in {"page"} |-> page],
     name |-> <<>>,
     date |-> [v \in {"issued"} |-> issued],
     csl_type |-> "book"]

\* a cite with no locator, whose position carries no note number
CiteContext(refr, pass, date_parts) ==
    [reference |-> refr,
     cite |-> [id |-> 1, locators |-> <<>>],
     position |-> <<"First", None>>,
     bib_number |-> None,
     disamb_pass |-> pass,
     style |-> [features |-> [condition_date_parts |-> date_parts]]]

Contexts ==
    {CiteContext(Reference(p, d), pass, f) :
        p \in PageValues, d \in IssuedValues,
        pass \in {None} \cup {Some(x) : x \in DisambPasses}, f \in BOOLEAN}

\* the branch bodies of the enumerated Choose nodes
IfBody == <<ElNumber("page")>>
ElseIfBody(i) == <<ElConst(<<"e", Digits[i + 1]>>)>>
ElseBody == <<ElConst(NoPage)>>

CondUniverse ==
    {CondVariable(NumberVar("page")), CondIsNumeric(NumberVar("page")),
     CondDisambiguate(TRUE), CondDisambiguate(FALSE), CondHasDay("issued")}

\* <if match=".." ..>: one condition set under Conditions(All, ..)
DeepConditions ==
    {Conditions("All", <<CondSet(m, cs)>>) :
        m \in Matches, cs \in SeqsOf(CondUniverse, 1, MaxConds)}

\* <conditions match="..">: several one-predicate condition sets
SmallCondSets ==
    {CondSet(m, <<c>>) :
        m \in {"All", "None"},
        c \in {CondVariable(NumberVar("page")), CondDisambiguate(TRUE),
               CondHasDay("issued")}}
WideConditions ==
    {Conditions(m, sets) : m \in Matches, sets \in SeqsOf(SmallCondSets, 2, MaxCondSets)}

BranchConditions ==
    {Conditions("All", <<CondSet(m, <<c>>)>>) :
        m \in {"All", "None"},
        c \in {CondVariable(NumberVar("page")), CondDisambiguate(TRUE),
               CondDisambiguate(FALSE)}}

ElseIfLists ==
    UNION {{[i \in 1..n |-> IfThen(cs[i], ElseIfBody(i))] : cs \in [1..n -> BranchConditions]} :
              n \in 0..MaxElseIf}

Chooses ==
    {Choose(IfThen(c, IfBody), <<>>, ElseBody) : c \in DeepConditions \cup WideConditions}
    \cup {Choose(IfThen(c, IfBody), rest, ElseBody) :
             c \in BranchConditions, rest \in ElseIfLists}

\* The cite contexts and variables of the accessor queries.  held: the
\* reference holds values under the names of the synthesized variables and
\* of the dummy name variable too.
SynthesizedNames == {"locator", "page-first", "first-reference-note-number",
                     "citation-number"}
Held(present) == IF present THEN Some(NumericValueFrom(Text_5_7)) ELSE None
QueryReferences ==
    {[ordinary |-> [v \in {"title"} |-> IF title THEN Some(Text_2nd) ELSE None],
      number |-> [v \in SynthesizedNames \cup {"page", "volume"} |->
                     IF v = "page" THEN page
                     ELSE IF v = "volume" THEN Held(volume) ELSE Held(held)],
      name |-> [v \in {"author", "dummy"} |->
                   IF (v = "author" /\ author) \/ (v = "dummy" /\ held)
                   THEN Some(<<"n">>) ELSE None],
      date |-> [v \in {"issued"} |-> issued],
      csl_type |-> "book"] :
        title \in BOOLEAN, page \in PageValues, volume \in BOOLEAN, held \in BOOLEAN,
        author \in BOOLEAN, issued \in {None, Some(DateSingle(Date(5, 17)))}}
QueryLocators ==
    {<<>>, <<[value |-> NumericValueFrom(Text_5_7)]>>,
     <<[value |-> NumericValueFrom(Text_5_comma)], [value |-> NumericValueFrom(Text_5_7)]>>}
QueryContexts ==
    {[reference |-> r,
      cite |-> [id |-> 1, locators |-> ls],
      position |-> <<"First", frnn>>,
      bib_number |-> bib,
      disamb_pass |-> None,
      style |-> [features |-> [condition_date_parts |-> FALSE]]] :
        r \in QueryReferences, ls \in QueryLocators,
        frnn \in {None, Some(1)}, bib \in {None, Some(2)}}
QueryVariables ==
    {NumberVar(n) : n \in SynthesizedNames \cup {"page", "volume"}}
    \cup {OrdinaryVar("title"), NameVar("author"), NameVar("dummy"), DateVar("issued")}

NotAsked == [has |-> FALSE, numeric |-> FALSE, number |-> None]

\* The elements and cite contexts of one element evaluation.  The en-GB
\* locale has the term "and" and the page labels; it has no text for "et-al"
\* nor for the label of any other variable or locator type.  A style may
\* come without an en-GB locale.
TermTexts ==
    [k \in {<<SimpleTerm("and", "long"), pl>> : pl \in BOOLEAN}
            \cup {<<NumberTerm("page", "long"), pl>> : pl \in BOOLEAN}
            \cup {<<LocatorTerm("page", "long"), pl>> : pl \in BOOLEAN} |->
        IF k[1].kind = "Simple" THEN <<"a", "n", "d">>
        ELSE IF k[2] THEN <<"p", "p", ".">> ELSE <<"p", ".">>]
NoTexts == [k \in {} |-> <<>>]
LocaleOverrides ==
    {<<>>,
     [l \in {"en-US"} |-> TermTexts],
     [l \in {"en-GB"} |-> TermTexts],
     [l \in {"en-GB"} |-> NoTexts]}
ElementReferences ==
    {[ordinary |-> [v \in {"title"} |-> IF title THEN Some(Text_2nd) ELSE None],
      number |-> [v \in SynthesizedNames \cup {"page", "volume"} |->
                     IF v = "page" THEN page
                     ELSE IF v = "volume" THEN Held(volume) ELSE Held(held)],
      name |-> <<>>,
      date |-> <<>>,
      csl_type |-> "book"] :
        title \in BOOLEAN, page \in PageValues, volume \in BOOLEAN, held \in BOOLEAN}
ElementLocators ==
    {<<>>,
     <<[type |-> "page", value |-> NumericValueFrom(Text_5_7)]>>,
     <<[type |-> "section", value |-> NumericValueFrom(Text_5_comma)],
       [type |-> "page", value |-> NumericValueFrom(Text_5_7)]>>}
\* the cite's locator_type is that of its first locator
ElementContexts ==
    {[reference |-> r,
      cite |-> [id |-> 1, locators |-> ls,
                locator_type |-> IF ls = <<>> THEN None ELSE Some(ls[1].type)],
      position |-> <<"First", frnn>>,
      bib_number |-> bib,
      disamb_pass |-> None,
      style |-> [features |-> [condition_date_parts |-> FALSE],
                 macros |-> <<>>,
                 locale_overrides |-> lo]] :
        r \in ElementReferences, ls \in ElementLocators,
        frnn \in {None, Some(1)}, bib \in {None, Some(2)}, lo \in LocaleOverrides}
ElementNumberVars == SynthesizedNames \cup {"page", "volume"}
Elements ==
    {ElVariable(OrdinaryVar("title"))}
    \cup {ElVariable(NumberVar(v)) : v \in ElementNumberVars}
    \cup {ElNumber(v) : v \in ElementNumberVars}
    \cup {ElTerm(SimpleTerm(t, "long"), pl) : t \in {"and", "et-al"}, pl \in BOOLEAN}
    \cup {ElLabel(v, "long", pl) :
             v \in ElementNumberVars, pl \in {"Contextual", "Always", "Never"}}

NotEvaluated == [ir |-> Rendered(None), number |-> None, variable |-> Rendered(None)]

\* The enumerated style trees.  Macros are named a and b, a <text> may name
\* a, b or c, and no enumerated macro leads back to itself: a's body may name
\* b or c, b's body c only.
TextValue == TextNode(None, Some(<<"v">>))
TextMacro(n) == TextNode(Some(n), None)
TextBare == TextNode(None, None)
MacroNodes ==
    {MacroNode(Some("a"), b) :
        b \in {<<>>, <<TextValue>>, <<TextMacro("b")>>, <<TextMacro("c")>>, <<TextBare>>}}
    \cup {MacroNode(Some("b"), b) :
        b \in {<<>>, <<TextValue>>, <<TextMacro("c")>>, <<TextBare>>}}
    \cup {MacroNode(None, <<TextValue>>)}
LayoutNodes ==
    SeqsOf({TextValue, TextMacro("a"), TextMacro("b"), TextMacro("c"), TextBare},
           1, MaxElements)
CitationLists ==
    {<<CitationNode(<<l>>)>> : l \in LayoutNodes}
    \cup {<<>>, <<CitationNode(<<>>)>>, <<CitationNode(<<<<TextValue>>, <<TextValue>>>>)>>,
          <<CitationNode(<<<<TextValue>>>>), CitationNode(<<<<TextValue>>>>)>>}
StyleNodes ==
    {StyleNode(ms, cs) : ms \in SeqsOf(MacroNodes, 0, MaxMacros), cs \in CitationLists}

NotBuilt == [style |-> Err, ir |-> Rendered(None)]

\* The enumerated children of a <choose>: <if> and <else-if> nodes with
\* conditions of their own or a <conditions> block, with neither, and with
\* both; <else> nodes whose child builds or does not; and a <group>.
OwnConditions(v) == OwnOk(CondSet("All", <<CondVariable(NumberVar(v))>>))
SubConditions(v) == Ok(Some(Conditions("Any", <<CondSet("All", <<CondIsNumeric(NumberVar(v))>>)>>)))
ChooseChildren ==
    {BranchNode("if", OwnConditions("page"), Ok(None), <<TextValue>>),
     BranchNode("if", OwnUnconditional, SubConditions("page"), <<TextValue>>),
     BranchNode("if", OwnUnconditional, Ok(None), <<TextValue>>),
     BranchNode("if", OwnConditions("page"), SubConditions("page"), <<TextValue>>),
     BranchNode("else-if", OwnConditions("volume"), Ok(None), <<TextValue>>),
     BranchNode("else-if", OwnUnconditional, SubConditions("issue"), <<>>),
     BranchNode("else-if", OwnInvalid, Ok(None), <<TextValue>>),
     BranchNode("else-if", OwnUnconditional, Err, <<TextValue>>),
     BranchNode("else-if", OwnConditions("volume"), Ok(None), <<TextBare>>),
     ElseNode(<<TextValue>>),
     ElseNode(<<TextBare>>),
     OtherNode("group")}
ChooseNodes == SeqsOf(ChooseChildren, 0, MaxChildren)

\* <choose><if variable="page"><number variable="page"/></if>
\*         <else><text value="No page"/></else></choose>
PageStyle ==
    Choose(IfThen(Conditions("All", <<CondSet("All", <<CondVariable(NumberVar("page"))>>)>>),
                  <<ElNumber("page")>>),
           <<>>, <<ElConst(NoPage)>>)

NoResult == [eval |-> Leaf(Rendered(None)),
             head |-> [matched |-> FALSE, disambiguate |-> FALSE, sets |-> <<>>]]

(***************************************************************************)
(* The order of cluster positions (crates/citeproc-io/src/cite.rs).  A     *)
(* ClusterNumber is a record: kind is "InText" or "Note", and for a Note   *)
(* intra is "Single" or "Multi", n the note number and d the discriminant. *)
(***************************************************************************)
\* Ord for u32
u32_cmp(a, b) == IF a < b THEN "Less" ELSE IF a = b THEN "Equal" ELSE "Greater"

\* the order of two enum variants by their position in the declaration
variant_cmp(vs, a, b) ==
    u32_cmp(CHOOSE i \in 1..Len(vs) : vs[i] = a, CHOOSE i \in 1..Len(vs) : vs[i] = b)

\* #[derive(Ord)] for IntraNote: the variant first, then the fields in order
IntraNote_cmp(x, y) ==
    IF x.intra # y.intra THEN variant_cmp(<<"Single", "Multi">>, x.intra, y.intra)
    ELSE IF x.intra = "Single" THEN u32_cmp(x.n, y.n)
    ELSE IF u32_cmp(x.n, y.n) # "Equal" THEN u32_cmp(x.n, y.n)
    ELSE u32_cmp(x.d, y.d)

IntraNote_partial_cmp_by_note_number(x, y) ==
    IF x.n # y.n THEN Some(u32_cmp(x.n, y.n))
    ELSE IF x.intra # y.intra THEN Some(variant_cmp(<<"Single", "Multi">>, x.intra, y.intra))
    ELSE Some(u32_cmp(x.d, y.d))

\* impl PartialOrd for IntraNote
IntraNote_partial_cmp(x, y) ==
    CASE x.intra = "Single" /\ y.intra = "Multi" -> Some("Less")
      [] x.intra = "Multi" /\ y.intra = "Single" -> Some("Greater")
      [] x.intra = "Single" /\ y.intra = "Single" -> Some(u32_cmp(x.n, y.n))
      [] x.intra = "Multi" /\ y.intra = "Multi" ->
            LET e == u32_cmp(x.n, y.n) IN
            IF e = "Equal" THEN Some(u32_cmp(x.d, y.d)) ELSE Some(e)

\* #[derive(Ord)] for ClusterNumber
ClusterNumber_cmp(x, y) ==
    IF x.kind # y.kind THEN variant_cmp(<<"InText", "Note">>, x.kind, y.kind)
    ELSE IF x.kind = "InText" THEN u32_cmp(x.n, y.n)
    ELSE IntraNote_cmp(x, y)

\* impl PartialOrd for ClusterNumber
ClusterNumber_partial_cmp(x, y) ==
    CASE x.kind = "InText" /\ y.kind = "Note" -> Some("Less")
      [] x.kind = "Note" /\ y.kind = "InText" -> Some("Greater")
      [] x.kind = "InText" /\ y.kind = "InText" -> Some(u32_cmp(x.n, y.n))
      [] x.kind = "Note" /\ y.kind = "Note" -> IntraNote_partial_cmp(x, y)

\* IntraNote::note_number
note_number(x) == x.n

\* a - b on u32.  With overflow checks (a debug build) a - b below zero
\* panics; without them (a release build) it wraps to 2^32 - (b - a), which
\* is kept as Wrapped(b - a).
Builds == {"overflow-checks", "no-overflow-checks"}
Wrapped32(below) == [kind |-> "Wrapped", below |-> below]
u32_sub(a, b, build) ==
    IF a >= b THEN Some(a - b)
    ELSE IF build = "overflow-checks" THEN Panic
    ELSE Some(Wrapped32(b - a))

\* ClusterNumber::sub_note(self, note)
sub_note(self, note, build) ==
    IF self.kind = "Note" THEN u32_sub(note_number(self), note_number(note), build)
    ELSE None

(***************************************************************************)
(* The inputs of the numeric parser: every string of at most MaxLen        *)
(* characters over NumAlphabet, and the strings of the documentation and   *)
(* of the tests.  No enumerated digit run has a value of 2^31 or more that *)
(* fits in 32 bits.                                                        *)
(***************************************************************************)
NumAlphabet == {"0", "2", "b", " ", ",", "-", "&"}

Text_2nd_edition == <<"2", "n", "d", " ", "e", "d", "i", "t", "i", "o", "n">>
Text_minus_5 == <<"-", "5">>
Text_5_comma_comma_7 == <<"5", ",", ",", "7">>
Text_5_7_9_11 == <<"5", " ", "7", " ", "9", " ", "1", "1">>
Text_2_5_9_edition == <<"2", " ", "-", " ", "5", ",", " ", "9", ",", " ", "e", "d", "i", "t", "i", "o", "n">>
Text_2_5_9 == <<"2", "-", "5", ",", " ", "9">>
Text_2_4 == <<"2", ",", " ", "4">>
Text_2_4_5 == <<"2", "-", "4", ",", " ", "5">>
Text_2_4_5_spaced == <<"2", " ", "-", "4", " ", " ", " ", " ", ",", " ", "5">>
Text_2nd_4th == <<"2", "n", "d", "-", "4", "t", "h">>
Text_2b == <<"2", "b">>
Text_L2 == <<"L", "2">>
Text_L2tp == <<"L", "2", "t", "p">>
Text_bracket_3 == <<"[", "3", "]">>
Text_1_2_3 == <<"[", "1", ".", "2", ".", "3", "]">>
Text_007 == <<"0", "0", "7">>
Text_u32_max_plus_1 == <<"4", "2", "9", "4", "9", "6", "7", "2", "9", "6">>
Text_eleven_nines == <<"9", "9", "9", "9", "9", "9", "9", "9", "9", "9", "9">>
Text_5_amp_eleven_nines == <<"5", " ", "&", " ", "9", "9", "9", "9", "9", "9", "9", "9", "9", "9", "9">>
Text_2b_amp_02 == <<"2", "b", " ", "&", " ", "0", "2">>
Text_02_amp_2b_2 == <<"0", "2", " ", "&", "2", "b", " ", "-", "2">>
Text_eleven_nines_b == <<"9", "9", "9", "9", "9", "9", "9", "9", "9", "9", "9", "b">>

NamedTexts ==
    {Text_5_7, Text_2nd, Text_5_comma,
     Text_2nd_edition, Text_minus_5, Text_5_comma_comma_7, Text_5_7_9_11,
     Text_2_5_9_edition, Text_2_5_9, Text_2_4, Text_2_4_5,
     Text_2_4_5_spaced, Text_2nd_4th, Text_2b, Text_L2,
     Text_L2tp, Text_bracket_3, Text_1_2_3, Text_007,
     Text_u32_max_plus_1, Text_eleven_nines, Text_5_amp_eleven_nines, Text_eleven_nines_b,
     Text_2b_amp_02, Text_02_amp_2b_2}

NumericTexts == SeqsOf(NumAlphabet, 0, MaxLen) \cup NamedTexts

NotParsed == [value |-> Str(<<>>), text |-> <<>>, again |-> Str(<<>>), first |-> None,
              numeric |-> FALSE, multiple |-> FALSE]

(***************************************************************************)
(* The Processor (crates/citeproc/src/db/mod.rs).                          *)
(*                                                                         *)
(* db holds the salsa inputs.  The derived queries are not part of these   *)
(* sources; what is modelled of them is what the Processor's own code      *)
(* shows: reference(key) is a query over reference_input and all_keys that *)
(* returns an Option (get_reference, get_langs_in_use), and built_cluster  *)
(* is the query whose executions salsa_event records.  built_cluster(id)   *)
(* reads the cluster's cite list and position, its cites, and reference()  *)
(* of each cite.  A memoized result is reused unless an input it read was  *)
(* set again or a query it read now returns another value: memo[id] is     *)
(* None when there is no usable result, and otherwise holds the values of  *)
(* reference() the execution read.                                         *)
(***************************************************************************)
RefIds == {"r1", "r2"}
CiteIds == {1, 2}
ClusterIds == {1, 2}
Langs == {"en-GB"}

InText(n) == [kind |-> "InText", intra |-> "Single", n |-> n, d |-> 0]
NoteSingle(n) == [kind |-> "Note", intra |-> "Single", n |-> n, d |-> 0]
NoteMulti(n, d) == [kind |-> "Note", intra |-> "Multi", n |-> n, d |-> d]
ClusterNumbers == {NoteSingle(1), NoteSingle(2)}

\* the compared positions
Positions ==
    {InText(n) : n \in 0..MaxNum} \cup {NoteSingle(n) : n \in 0..MaxNum}
    \cup {NoteMulti(n, d) : n \in 0..MaxNum, d \in 0..MaxNum}

NotCompared == [partial |-> <<>>, total |-> <<>>]

\* what the host passes in
References == {[id |-> "r1", content |-> "a"], [id |-> "r2", content |-> "a"],
               [id |-> "r2", content |-> "b"]}
ReferenceLists ==
    SeqsOf(References, 0, 1)
    \cup {<<a, b>> : a \in {r \in References : r.id = "r1"},
                     b \in {r \in References : r.id = "r2"}}
Cites == {[id |-> 1, ref_id |-> "r1"], [id |-> 2, ref_id |-> "r2"]}
Clusters == {c \in [id : ClusterIds, number : ClusterNumbers, cites : SeqsOf(Cites, 0, 1)] :
                \A i \in 1..Len(c.cites) : c.cites[i].id = c.id}
ClusterLists ==
    SeqsOf({c \in Clusters : c.number = NoteSingle(c.id)}, 0, 1)
    \cup {<<a, b>> : a \in {c \in Clusters : c.id = 1 /\ c.number = NoteSingle(1)},
                     b \in {c \in Clusters : c.id = 2 /\ c.number = NoteSingle(2)}}
Mappings ==
    SeqsOf({1} \X ClusterNumbers, 1, 1)
    \cup {<<<<1, NoteSingle(1)>>, <<2, NoteSingle(2)>>>>,
          <<<<1, NoteSingle(2)>>, <<2, NoteSingle(1)>>>>}
LocaleLists == SeqsOf(Langs \X {"xml"}, 1, 1)

InitDb ==
    [reference_input |-> [k \in RefIds |-> None],
     all_keys |-> {},
     cite |-> [c \in CiteIds |-> None],
     cluster_cites |-> [c \in ClusterIds |-> None],
     cluster_note_number |-> [c \in ClusterIds |-> None],
     cluster_ids |-> <<>>,
     locale_input_langs |-> {},
     locale_input_xml |-> [l \in Langs |-> None]]

NoCall == [op |-> "new", id |-> 0, writes |-> <<>>, executed |-> <<>>, ret |-> <<>>]

\* Processor::new
ProcInit ==
    /\ queue = <<>>
    /\ db = InitDb
    /\ memo = [c \in ClusterIds |-> None]
    /\ calls = 0
    /\ lastCall = NoCall
    /\ since_compute = <<"none">>
    /\ since_drain = FALSE

\* --- salsa inputs: one write of one input -------------------------------
WriteOf(input, key, val) == [input |-> input, key |-> key, val |-> val]
Written(ws) == [i \in 1..Len(ws) |-> <<ws[i].input, ws[i].key>>]
Keyed == {"reference_input", "cite", "cluster_cites", "cluster_note_number",
          "locale_input_xml"}

\* the memoized results an input write makes stale: those that read it
Invalidate(m, d, w) ==
    [x \in ClusterIds |->
        IF \/ (w.input \in {"cluster_cites", "cluster_note_number"} /\ w.key = x)
           \/ /\ w.input = "cite"
              /\ IsSome(d.cluster_cites[x])
              /\ w.key \in Range(Unwrap(d.cluster_cites[x]))
        THEN None
        ELSE m[x]]

SetInput(d, w) ==
    IF w.input \in Keyed
    THEN [d EXCEPT ![w.input][w.key] = Some(w.val)]
    ELSE [d EXCEPT ![w.input] = w.val]

\* the writes of a setter, applied in order
RECURSIVE ApplyWrites(_, _)
ApplyWrites(st, ws) ==
    IF ws = <<>> THEN st
    ELSE ApplyWrites([db |-> SetInput(st.db, ws[1]), memo |-> Invalidate(st.memo, st.db, ws[1])],
                     Tail(ws))

\* --- derived queries ----------------------------------------------------
\* reference(key): None unless the key is one of all_keys
ReferenceQuery(d, key) == IF key \in d.all_keys THEN d.reference_input[key] ELSE None

RefsCitedBy(d, id) ==
    {Unwrap(d.cite[c]) : c \in Range(Unwrap(d.cluster_cites[id]))}

\* a memoized built_cluster(id) must be executed again
Stale(d, m, id) ==
    \/ ~IsSome(m[id])
    \/ \E k \in DOMAIN Unwrap(m[id]) : ReferenceQuery(d, k) # Unwrap(m[id])[k]

\* the memo of an execution of built_cluster(id): what it read of reference()
Executed(d, id) == Some([k \in RefsCitedBy(d, id) |-> ReferenceQuery(d, k)])

\* salsa::Event kinds a demand raises
WillExecute(query, key) == [kind |-> "WillExecute", query |-> query, key |-> key]
DidValidate(query, key) == [kind |-> "DidValidateMemoizedValue", query |-> query, key |-> key]

salsa_event_any_kind(q, event) ==
    IF ~save_updates THEN q
    ELSE IF event.query = "built_cluster" THEN Append(q, event.key) ELSE q

\* impl salsa::Database for Processor: salsa_event
salsa_event(q, event) ==
    IF ~save_updates THEN q
    ELSE IF event.kind = "WillExecute" /\ event.query = "built_cluster"
         THEN Append(q, event.key)
         ELSE q

\* a demand of built_cluster(id): st = [memo, queue, executed]
Demand(d, st, id) ==
    IF Stale(d, st.memo, id)
    THEN [memo |-> [st.memo EXCEPT ![id] = Executed(d, id)],
          queue |-> salsa_event(st.queue, WillExecute("built_cluster", id)),
          executed |-> Append(st.executed, id)]
    ELSE [memo |-> st.memo,
          queue |-> salsa_event(st.queue, DidValidate("built_cluster", id)),
          executed |-> st.executed]

\* for &cluster_id in cluster_ids.iter() { self.built_cluster(cluster_id); }
RECURSIVE ComputeLoop(_, _, _)
ComputeLoop(d, st, ids) ==
    IF ids = <<>> THEN st ELSE ComputeLoop(d, Demand(d, st, ids[1]), Tail(ids))

compute(d, m, q) == ComputeLoop(d, [memo |-> m, queue |-> q, executed |-> <<>>], d.cluster_ids)

\* UpdateSummary::summarize: the clusters the log names
RECURSIVE Dedup(_)
Dedup(s) ==
    IF s = <<>> THEN <<>>
    ELSE LET r == Dedup(Take(s, Len(s) - 1)) IN
         IF s[Len(s)] \in Range(r) THEN r ELSE Append(r, s[Len(s)])
summarize(q) == Dedup(q)

\* --- the calls ----------------------------------------------------------
Call(op, id, ws, ex, ret) ==
    [op |-> op, id |-> id, writes |-> ws, executed |-> ex, ret |-> ret]

\* one more call of the host; no parallel compute() is under way
Called ==
    /\ calls < MaxCalls
    /\ calls' = calls + 1
    /\ UNCHANGED parVars

\* a setter: its writes in order, and nothing else
Setter(op, id, ws, sc) ==
    LET st == ApplyWrites([db |-> db, memo |-> memo], ws) IN
    /\ Called
    /\ db' = st.db
    /\ memo' = st.memo
    /\ lastCall' = Call(op, id, Written(ws), <<>>, <<>>)
    /\ since_compute' = sc
    /\ since_drain' = FALSE
    /\ UNCHANGED <<queue, save_updates, arg, res, pc>>

set_references_writes(refs) ==
    [i \in 1..Len(refs) |-> WriteOf("reference_input", refs[i].id, refs[i].content)]
    \o <<WriteOf("all_keys", 0, {refs[i].id : i \in 1..Len(refs)})>>

\* what was called since the last compute(): nothing (fresh), one
\* insert_reference and nothing else, or anything else
AfterOther == IF since_compute = <<"none">> THEN <<"none">> ELSE <<"other">>
AfterOneReference(refr) ==
    IF since_compute = <<"fresh">> THEN <<"reference", refr.id>> ELSE AfterOther

SetReferences(refs) ==
    Setter("set_references", 0, set_references_writes(refs), AfterOther)

InsertReference(refr) ==
    Setter("insert_reference", 0, set_references_writes(<<refr>>), AfterOneReference(refr))

\* the writes for the cites of one cluster, then its cite list and position
cluster_writes(c) ==
    [i \in 1..Len(c.cites) |-> WriteOf("cite", c.cites[i].id, c.cites[i].ref_id)]
    \o <<WriteOf("cluster_cites", c.id, [i \in 1..Len(c.cites) |-> c.cites[i].id]),
         WriteOf("cluster_note_number", c.id, c.number)>>

RECURSIVE init_clusters_writes(_)
init_clusters_writes(cs) ==
    IF cs = <<>> THEN <<>> ELSE cluster_writes(cs[1]) \o init_clusters_writes(Tail(cs))

InitClusters(cs) ==
    Setter("init_clusters", 0,
           init_clusters_writes(cs)
           \o <<WriteOf("cluster_ids", 0, [i \in 1..Len(cs) |-> cs[i].id])>>,
           AfterOther)

Filter(s, id) == SelectSeq(s, LAMBDA x : x # id)

remove_cluster_list_first(d, id) ==
    <<WriteOf("cluster_ids", 0, Filter(d.cluster_ids, id)),
      WriteOf("cluster_cites", id, <<>>),
      WriteOf("cluster_note_number", id, InText(0))>>

remove_cluster_writes(d, id) ==
    <<WriteOf("cluster_cites", id, <<>>),
      WriteOf("cluster_note_number", id, InText(0)),
      WriteOf("cluster_ids", 0, Filter(d.cluster_ids, id))>>

RemoveCluster(id) ==
    Setter("remove_cluster", id, remove_cluster_writes(db, id), AfterOther)

insert_cluster_writes(d, c) ==
    (IF c.id \notin Range(d.cluster_ids)
     THEN <<WriteOf("cluster_ids", 0, Append(d.cluster_ids, c.id))>> ELSE <<>>)
    \o cluster_writes(c)

\* insert_cluster followed at once by compute()
InsertCluster_and_compute(c) ==
    LET ws == insert_cluster_writes(db, c)
        st == ApplyWrites([db |-> db, memo |-> memo], ws)
        r == compute(st.db, st.memo, queue)
    IN  /\ Called
        /\ db' = st.db
        /\ memo' = r.memo
        /\ queue' = r.queue
        /\ lastCall' = Call("insert_cluster", c.id, Written(ws), r.executed, <<>>)
        /\ since_compute' = AfterOther
        /\ since_drain' = FALSE
        /\ UNCHANGED <<save_updates, arg, res, pc>>

InsertCluster(c) ==
    Setter("insert_cluster", c.id, insert_cluster_writes(db, c), AfterOther)

renumber_clusters_writes(ms) ==
    [i \in 1..Len(ms) |-> WriteOf("cluster_note_number", ms[i][1], ms[i][2])]

\* returns (): the mappings are applied as given
RenumberClusters(ms) ==
    /\ Setter("renumber_clusters", 0, renumber_clusters_writes(ms), AfterOther)

store_locales_writes(d, ls) ==
    [i \in 1..Len(ls) |-> WriteOf("locale_input_xml", ls[i][1], ls[i][2])]
    \o <<WriteOf("locale_input_langs", 0,
                 d.locale_input_langs \cup {ls[i][1] : i \in 1..Len(ls)})>>

StoreLocales(ls) ==
    Setter("store_locales", 0, store_locales_writes(db, ls), AfterOther)

Compute ==
    LET st == compute(db, memo, queue) IN
    /\ Called
    /\ Len(st.queue) <= MaxQueue
    /\ memo' = st.memo
    /\ queue' = st.queue
    /\ lastCall' = Call("compute", 0, <<>>, st.executed, <<>>)
    /\ since_compute' = <<"fresh">>
    /\ UNCHANGED <<db, since_drain, save_updates, arg, res, pc>>

BatchedUpdates ==
    /\ Called
    /\ IF ~save_updates
       THEN /\ lastCall' = Call("batched_updates", 0, <<>>, <<>>, <<>>)
            /\ UNCHANGED <<queue, db, memo, since_compute, since_drain, save_updates,
                           arg, res, pc>>
       ELSE LET st == compute(db, memo, queue) IN
            /\ memo' = st.memo
            /\ queue' = <<>>
            /\ lastCall' = Call("batched_updates", 0, <<>>, st.executed, summarize(st.queue))
            /\ since_compute' = <<"fresh">>
            /\ since_drain' = TRUE
            /\ UNCHANGED <<db, save_updates, arg, res, pc>>

Drain ==
    LET st == compute(db, memo, queue) IN
    /\ Called
    /\ memo' = st.memo
    /\ queue' = <<>>
    /\ lastCall' = Call("drain", 0, <<>>, st.executed, <<>>)
    /\ since_compute' = <<"fresh">>
    /\ since_drain' = TRUE
    /\ UNCHANGED <<db, save_updates, arg, res, pc>>

\* get_cluster(id) of a cluster whose inputs were set
GetCluster(id) ==
    /\ Called
    /\ IsSome(db.cluster_cites[id])
    /\ LET st == Demand(db, [memo |-> memo, queue |-> queue, executed |-> <<>>], id) IN
       /\ Len(st.queue) <= MaxQueue
       /\ memo' = st.memo
       /\ queue' = st.queue
       /\ lastCall' = Call("get_cluster", id, <<>>, st.executed, <<>>)
    /\ UNCHANGED <<db, since_compute, since_drain, save_updates, arg, res, pc>>


(***************************************************************************)
(* compute() with the rayon feature: the cites and then the clusters are   *)
(* handed to workers, each with a snapshot of the Processor.  The query    *)
(* store is not part of these sources; of it the model has what the        *)
(* specification requires: the first computation of one query is           *)
(* serialized per key, so a second demand waits for the first.             *)
(***************************************************************************)
Workers == {1, 2}

IrKey(c) == [query |-> "ir_gen2_add_given_name", key |-> c]
ClusterKey(x) == [query |-> "built_cluster", key |-> x]
NoKey == [query |-> "none", key |-> 0]
Keys == {IrKey(c) : c \in CiteIds} \cup {ClusterKey(x) : x \in ClusterIds}

\* impl ParallelDatabase for Processor: the snapshot shares the queue
snapshot == [queue |-> "shared", save_updates |-> save_updates]

IdleWorker(snap) == [pc |-> "idle", key |-> NoKey, kind |-> "none", snap |-> snap]

ParIdle ==
    /\ phase = "idle"
    /\ pending = {}
    /\ worker = [w \in Workers |-> IdleWorker(snapshot)]
    /\ running = {}
    /\ ir_memo = {}
    /\ qlock = 0
    /\ execs = [k \in Keys |-> 0]

\* all_cite_ids: the cites of the clusters of the document, in order
RECURSIVE all_cite_ids_of(_, _)
all_cite_ids_of(d, ids) ==
    IF ids = <<>> THEN <<>>
    ELSE Unwrap(d.cluster_cites[ids[1]]) \o all_cite_ids_of(d, Tail(ids))
all_cite_ids(d) == all_cite_ids_of(d, d.cluster_ids)

\* the items of the par_iter of the current phase, as queries
Items ==
    IF phase = "cites"
    THEN [i \in 1..Len(all_cite_ids(db)) |-> IrKey(all_cite_ids(db)[i])]
    ELSE [i \in 1..Len(db.cluster_ids) |-> ClusterKey(db.cluster_ids[i])]

Memoized(k) ==
    IF k.query = "built_cluster" THEN ~Stale(db, memo, k.key) ELSE k.key \in ir_memo

AllIdle == \A w \in Workers : worker[w].pc = "idle"

\* compute() starts: let cluster_ids = ..; let cite_ids = ..; self.snap()
ParBegin ==
    /\ phase = "idle"
    /\ phase' = "cites"
    /\ pending' = 1..Len(all_cite_ids(db))
    /\ worker' = [w \in Workers |-> IdleWorker(snapshot)]
    /\ UNCHANGED <<running, ir_memo, qlock, execs>>
    /\ UNCHANGED <<procVars, arg, res, pc>>

\* for_each_with: a worker takes an item and demands its query
WorkerTake(w) ==
    /\ phase \in {"cites", "clusters"}
    /\ worker[w].pc = "idle"
    /\ \E i \in pending :
          /\ pending' = pending \ {i}
          /\ worker' = [worker EXCEPT ![w].pc = "demand", ![w].key = Items[i]]
    /\ UNCHANGED <<phase, running, ir_memo, qlock, execs>>
    /\ UNCHANGED <<procVars, arg, res, pc>>

\* the demand: a memoized result is validated; a query another worker is
\* executing is waited for; otherwise this worker will execute it
WorkerDemand(w) ==
    /\ worker[w].pc = "demand"
    /\ worker[w].key \notin running
    /\ IF Memoized(worker[w].key)
       THEN /\ worker' = [worker EXCEPT ![w].pc = "event",
                                        ![w].kind = "DidValidateMemoizedValue"]
            /\ UNCHANGED <<running, execs>>
       ELSE /\ worker' = [worker EXCEPT ![w].pc = "event", ![w].kind = "WillExecute"]
            /\ running' = running \cup {worker[w].key}
            /\ execs' = [execs EXCEPT ![worker[w].key] = @ + 1]
    /\ UNCHANGED <<phase, pending, ir_memo, qlock>>
    /\ UNCHANGED <<procVars, arg, res, pc>>

AfterEvent(w) == IF worker[w].kind = "WillExecute" THEN "execute" ELSE "idle"

\* salsa_event: if !self.save_updates { return; } let mut q = self.queue.lock();
WorkerLock(w) ==
    /\ worker[w].pc = "event"
    /\ IF ~worker[w].snap.save_updates
       THEN /\ worker' = [worker EXCEPT ![w].pc = AfterEvent(w)]
            /\ UNCHANGED qlock
       ELSE /\ qlock = 0
            /\ qlock' = w
            /\ worker' = [worker EXCEPT ![w].pc = "locked"]
    /\ UNCHANGED <<phase, pending, running, ir_memo, execs>>
    /\ UNCHANGED <<procVars, arg, res, pc>>

\* salsa_event: match event_fn().kind { .. q.push(upd) .. }, and q is dropped
WorkerPush(w) ==
    /\ worker[w].pc = "locked"
    /\ qlock = w
    /\ queue' = salsa_event(queue, [kind |-> worker[w].kind, query |-> worker[w].key.query,
                                    key |-> worker[w].key.key])
    /\ qlock' = 0
    /\ worker' = [worker EXCEPT ![w].pc = AfterEvent(w)]
    /\ UNCHANGED <<phase, pending, running, ir_memo, execs>>
    /\ UNCHANGED <<save_updates, db, memo, calls, lastCall, since_compute, since_drain,
                   arg, res, pc>>

\* the query function runs and its result is memoized
WorkerExecute(w) ==
    /\ worker[w].pc = "execute"
    /\ IF worker[w].key.query = "built_cluster"
       THEN /\ memo' = [memo EXCEPT ![worker[w].key.key] = Executed(db, worker[w].key.key)]
            /\ UNCHANGED ir_memo
       ELSE /\ ir_memo' = ir_memo \cup {worker[w].key.key}
            /\ UNCHANGED memo
    /\ running' = running \ {worker[w].key}
    /\ worker' = [worker EXCEPT ![w].pc = "idle"]
    /\ UNCHANGED <<phase, pending, qlock, execs>>
    /\ UNCHANGED <<save_updates, queue, db, calls, lastCall, since_compute, since_drain,
                   arg, res, pc>>

\* year_suffixes is called without waiting for the first par_iter
CitesDone_without_waiting ==
    /\ phase = "cites"
    /\ phase' = "year_suffixes"
    /\ UNCHANGED <<pending, worker, running, ir_memo, qlock, execs>>
    /\ UNCHANGED <<procVars, arg, res, pc>>

\* the first par_iter has returned
CitesDone ==
    /\ phase = "cites"
    /\ pending = {}
    /\ AllIdle
    /\ phase' = "year_suffixes"
    /\ UNCHANGED <<pending, worker, running, ir_memo, qlock, execs>>
    /\ UNCHANGED <<procVars, arg, res, pc>>

\* self.year_suffixes(), on the calling thread; then the second par_iter
YearSuffixes ==
    /\ phase = "year_suffixes"
    /\ qlock = 0
    /\ queue' = salsa_event(queue, WillExecute("year_suffixes", 0))
    /\ phase' = "clusters"
    /\ pending' = 1..Len(db.cluster_ids)
    /\ worker' = [w \in Workers |-> IdleWorker(snapshot)]
    /\ UNCHANGED <<running, ir_memo, qlock, execs>>
    /\ UNCHANGED <<save_updates, db, memo, calls, lastCall, since_compute, since_drain,
                   arg, res, pc>>

\* the second par_iter has returned, and with it compute()
ClustersDone ==
    /\ phase = "clusters"
    /\ pending = {}
    /\ AllIdle
    /\ phase' = "done"
    /\ UNCHANGED <<pending, worker, running, ir_memo, qlock, execs>>
    /\ UNCHANGED <<procVars, arg, res, pc>>

\* the documents a parallel compute() starts from: init_clusters of a list
\* (an id may be given twice) and set_references, with any part of the
\* results memoized by an earlier compute()
ParClusterLists ==
    {cs \in ClusterLists : cs # <<>>}
    \cup {<<c, c>> : c \in {x \in Clusters : x.number = NoteSingle(x.id) /\ x.cites # <<>>}}
ParDocuments ==
    {ApplyWrites([db |-> InitDb, memo |-> [x \in ClusterIds |-> None]],
                 init_clusters_writes(cs)
                 \o <<WriteOf("cluster_ids", 0, [i \in 1..Len(cs) |-> cs[i].id])>>
                 \o set_references_writes(<<[id |-> "r1", content |-> "a"],
                                            [id |-> "r2", content |-> "a"]>>)).db :
        cs \in ParClusterLists}

(***************************************************************************)
(* Specifications.                                                         *)
(***************************************************************************)
vars == <<arg, res, pc, save_updates, queue, db, memo, calls, lastCall, since_compute,
          since_drain, phase, pending, worker, running, ir_memo, qlock, execs>>

\* SpecEval: one evaluation of a Choose against a cite context; no Processor
\* call is made.
EvalInit ==
    /\ arg \in [choose : Chooses, ctx : Contexts]
    /\ res = NoResult
    /\ pc = "init"
    /\ save_updates = FALSE
    /\ ProcInit
    /\ ParIdle

\* one evaluation of arg.choose against arg.ctx
Intermediate ==
    /\ pc = "init"
    /\ res' = [eval |-> choose_intermediate(arg.choose, arg.ctx),
               head |-> LET c == arg.choose.head.conditions
                            e == eval_conditions(c, arg.ctx)
                        IN  [matched |-> e.matched, disambiguate |-> e.disambiguate,
                             sets |-> [i \in 1..Len(c.sets) |->
                                          eval_condset(c.sets[i], arg.ctx)]]]
    /\ pc' = "done"
    /\ UNCHANGED arg
    /\ UNCHANGED procVars
    /\ UNCHANGED parVars

EvalNext == Intermediate
SpecEval == EvalInit /\ [][EvalNext]_vars

\* SpecNum: one numeric string is parsed, queried and written back.
NumInit ==
    /\ arg \in NumericTexts
    /\ res = NotParsed
    /\ pc = "unparsed"
    /\ save_updates = FALSE
    /\ ProcInit
    /\ ParIdle

\* a parsed value, what its accessors return, and its to_string() parsed again
Parsed(v) ==
    [value |-> v, text |-> to_string(v), again |-> NumericValueFrom(to_string(v)),
     first |-> page_first(v), numeric |-> NV_is_numeric(v), multiple |-> NV_is_multiple(v)]

\* NumericValue::from(arg), its accessors, and to_string() parsed again
Parse ==
    /\ pc = "unparsed"
    /\ res' = Parsed(NumericValueFrom(arg))
    /\ pc' = "parsed"
    /\ UNCHANGED arg
    /\ UNCHANGED procVars
    /\ UNCHANGED parVars

NumNext == Parse
SpecNum == NumInit /\ [][NumNext]_vars

\* SpecOrd: three cluster positions are compared with each other.
OrdInit ==
    /\ arg \in [1..3 -> Positions]
    /\ res = NotCompared
    /\ pc = "uncompared"
    /\ save_updates = FALSE
    /\ ProcInit
    /\ ParIdle

\* a.partial_cmp(&b) and a.cmp(&b) of every two of the three positions
Compare ==
    /\ pc = "uncompared"
    /\ res' = [partial |-> [i \in 1..3 |-> [j \in 1..3 |->
                                ClusterNumber_partial_cmp(arg[i], arg[j])]],
               total |-> [i \in 1..3 |-> [j \in 1..3 |->
                                ClusterNumber_cmp(arg[i], arg[j])]]]
    /\ pc' = "compared"
    /\ UNCHANGED arg
    /\ UNCHANGED procVars
    /\ UNCHANGED parVars

\* arg[1].sub_note(arg[2]), where arg[2] is a note position, in either build
SubNote ==
    /\ pc = "uncompared"
    /\ arg[2].kind = "Note"
    /\ \E build \in Builds :
          res' = [sub |-> sub_note(arg[1], arg[2], build), build |-> build]
    /\ pc' = "subtracted"
    /\ UNCHANGED arg
    /\ UNCHANGED procVars
    /\ UNCHANGED parVars

OrdNext == Compare \/ SubNote
SpecOrd == OrdInit /\ [][OrdNext]_vars

\* SpecCtx: one variable is looked up in one cite context.
CtxInit ==
    /\ arg \in [ctx : QueryContexts, var : QueryVariables]
    /\ res = NotAsked
    /\ pc = "unasked"
    /\ save_updates = FALSE
    /\ ProcInit
    /\ ParIdle

\* ctx.has_variable(var), ctx.is_numeric(var) and, for a number variable,
\* ctx.get_number(var)
Query ==
    /\ pc = "unasked"
    /\ res' = [has |-> has_variable(arg.ctx, arg.var),
               numeric |-> is_numeric(arg.ctx, arg.var),
               number |-> IF arg.var.cat = "Number"
                          THEN get_number(arg.ctx, arg.var.name) ELSE None]
    /\ pc' = "asked"
    /\ UNCHANGED arg
    /\ UNCHANGED procVars
    /\ UNCHANGED parVars

CtxNext == Query
SpecCtx == CtxInit /\ [][CtxNext]_vars

\* SpecElement: one leaf element is evaluated against one cite context.
ElementInit ==
    /\ arg \in [el : Elements, ctx : ElementContexts]
    /\ res = NotEvaluated
    /\ pc = "unevaluated"
    /\ save_updates = FALSE
    /\ ProcInit
    /\ ParIdle

\* the number variable an element names, if it names one
NumberVarOf(el) ==
    CASE el.kind \in {"Number", "Label"} -> Some(el.var)
      [] el.kind = "Variable" /\ el.var.cat = "Number" -> Some(el.var.name)
      [] OTHER -> None

\* el.intermediate(ctx); for an element that names a number variable, also
\* ctx.get_number of it and the <text variable=".."> of it
Evaluated(el, ctx, v) ==
    [ir |-> element_intermediate(el, ctx),
     number |-> IF IsSome(v) THEN get_number(ctx, Unwrap(v)) ELSE None,
     variable |-> IF IsSome(v)
                  THEN element_intermediate(ElVariable(NumberVar(Unwrap(v))), ctx)
                  ELSE Rendered(None)]

EvaluateElement ==
    /\ pc = "unevaluated"
    /\ res' = Evaluated(arg.el, arg.ctx, NumberVarOf(arg.el))
    /\ pc' = "evaluated"
    /\ UNCHANGED arg
    /\ UNCHANGED procVars
    /\ UNCHANGED parVars

ElementNext == EvaluateElement
SpecElement == ElementInit /\ [][ElementNext]_vars

\* SpecChoose: a <choose> element is built from its children.
ChooseInit ==
    /\ arg \in ChooseNodes
    /\ res = Err
    /\ pc = "choose-unbuilt"
    /\ save_updates = FALSE
    /\ ProcInit
    /\ ParIdle

\* choose_el(arg)
BuildChoose ==
    /\ pc = "choose-unbuilt"
    /\ res' = choose_el(arg)
    /\ pc' = "choose-built"
    /\ UNCHANGED arg
    /\ UNCHANGED procVars
    /\ UNCHANGED parVars

ChooseNext == BuildChoose
SpecChoose == ChooseInit /\ [][ChooseNext]_vars

\* SpecStyle: a style is built from its XML tree and, when it is accepted,
\* evaluated for one cite.
StyleInit ==
    /\ arg \in StyleNodes
    /\ res = NotBuilt
    /\ pc = "unbuilt"
    /\ save_updates = FALSE
    /\ ProcInit
    /\ ParIdle

\* Style::from_node(arg)
BuildStyle ==
    /\ pc = "unbuilt"
    /\ res' = [res EXCEPT !.style = Style_from_node(arg)]
    /\ pc' = "built"
    /\ UNCHANGED arg
    /\ UNCHANGED procVars
    /\ UNCHANGED parVars

\* style.intermediate(ctx), for a style that was accepted
EvaluateStyle ==
    /\ pc = "built"
    /\ res.style.ok
    /\ res' = [res EXCEPT !.ir =
                  style_intermediate(res.style.val,
                      [CiteContext(Reference(None, None), None, FALSE)
                          EXCEPT !.style = res.style.val])]
    /\ pc' = "evaluated"
    /\ UNCHANGED arg
    /\ UNCHANGED procVars
    /\ UNCHANGED parVars

StyleNext == BuildStyle \/ EvaluateStyle
SpecStyle == StyleInit /\ [][StyleNext]_vars

\* Spec: the calls a host makes on one Processor, in any order.
Init ==
    /\ arg = [choose |-> PageStyle, ctx |-> CiteContext(Reference(None, None), None, FALSE)]
    /\ res = NoResult
    /\ pc = "idle"
    /\ save_updates \in BOOLEAN
    /\ ProcInit
    /\ ParIdle

Next ==
    \/ \E refs \in ReferenceLists : SetReferences(refs)
    \/ \E r \in References : InsertReference(r)
    \/ \E cs \in ClusterLists : InitClusters(cs)
    \/ \E c \in {x \in Clusters : x.number = NoteSingle(x.id)} : InsertCluster(c)
    \/ \E id \in ClusterIds : RemoveCluster(id)
    \/ \E ms \in Mappings : RenumberClusters(ms)
    \/ \E ls \in LocaleLists : StoreLocales(ls)
    \/ Compute
    \/ BatchedUpdates
    \/ Drain
    \/ \E id \in ClusterIds : GetCluster(id)

Spec == Init /\ [][Next]_vars

\* SpecClusters: the calls that set the clusters of a document, in any order;
\* init_clusters may be given a list that names an id twice.
ClustersNext ==
    \/ \E cs \in ClusterLists \cup ParClusterLists : InitClusters(cs)
    \/ \E c \in Clusters : InsertCluster(c)
    \/ \E id \in ClusterIds : RemoveCluster(id)
    \/ \E ms \in Mappings : RenumberClusters(ms)

SpecClusters == Init /\ [][ClustersNext]_vars

\* SpecPar: one parallel compute() over a document.
ParInit ==
    /\ arg = [choose |-> PageStyle, ctx |-> CiteContext(Reference(None, None), None, FALSE)]
    /\ res = NoResult
    /\ pc = "idle"
    /\ save_updates \in BOOLEAN
    /\ queue = <<>>
    /\ db \in ParDocuments
    /\ \E S \in SUBSET Range(db.cluster_ids) :
          memo = [x \in ClusterIds |-> IF x \in S THEN Executed(db, x) ELSE None]
    /\ calls = 0
    /\ lastCall = NoCall
    /\ since_compute = <<"none">>
    /\ since_drain = FALSE
    /\ phase = "idle"
    /\ pending = {}
    /\ worker = [w \in Workers |-> IdleWorker(snapshot)]
    /\ running = {}
    /\ ir_memo \in SUBSET Range(all_cite_ids(db))
    /\ qlock = 0
    /\ execs = [k \in Keys |-> 0]

ParNext ==
    \/ ParBegin
    \/ \E w \in Workers : WorkerTake(w)
    \/ \E w \in Workers : WorkerDemand(w)
    \/ \E w \in Workers : WorkerLock(w)
    \/ \E w \in Workers : WorkerPush(w)
    \/ \E w \in Workers : WorkerExecute(w)
    \/ CitesDone
    \/ YearSuffixes
    \/ ClustersDone

SpecPar == ParInit /\ [][ParNext]_vars

(***************************************************************************)
(* Claims about one evaluation (checked under SpecEval).                   *)
(***************************************************************************)
\* the branches of a Choose by index, and what the claims say is selected
BranchOf(ch, i) == IF i = 0 THEN ch.head ELSE ch.rest[i]
BodyOf(ch, i) == IF i = Len(ch.rest) + 1 THEN ch.last ELSE BranchOf(ch, i).elements
BranchMatches(ch, ctx, i) == eval_conditions(BranchOf(ch, i).conditions, ctx).matched
FirstMatch(ch, ctx) ==
    LET m == {i \in 0..Len(ch.rest) :
                 /\ BranchMatches(ch, ctx, i)
                 /\ \A j \in 0..(i - 1) : ~BranchMatches(ch, ctx, j)}
    IN  IF m = {} THEN Len(ch.rest) + 1 ELSE CHOOSE i \in m : TRUE
\* the branches whose conditions are reached: the <if> and the <else-if>s up
\* to and including the first match
Reached(ch, ctx) ==
    LET f == FirstMatch(ch, ctx) IN 0..(IF f > Len(ch.rest) THEN Len(ch.rest) ELSE f)
ContentOf(ir) == IF ir.kind = "ConditionalDisamb" THEN ir.content ELSE ir

\* C1: a Choose evaluates exactly one body: the <if>'s when its conditions
\* match, else the first matching <else-if>'s in document order, else the
\* <else>'s; no other body and no condition after the first match is
\* evaluated, and the result is the content of the selected body.
C1_SelectsOneBranch ==
    pc = "done" =>
        LET ch == arg.choose
            sel == FirstMatch(ch, arg.ctx)
            lastCond == IF sel > Len(ch.rest) THEN Len(ch.rest) ELSE sel
        IN  /\ res.eval.selected = sel
            /\ res.eval.bodies = <<sel>>
            /\ res.eval.conds = [i \in 1..(lastCond + 1) |-> i - 1]
            /\ ContentOf(res.eval.ir) = sequence(BodyOf(ch, sel), arg.ctx)

\* the first <else-if> is selected while the second one would match too
C1_Witness ==
    /\ pc = "done"
    /\ Len(arg.choose.rest) = 2
    /\ res.eval.selected = 1
    /\ BranchMatches(arg.choose, arg.ctx, 2)

\* the truth table of the match policies
Policy(m, bools) ==
    LET n == Len(bools) IN
    CASE m = "All" -> \A i \in 1..n : bools[i]
      [] m = "Any" -> \E i \in 1..n : bools[i]
      [] m = "None" -> \A i \in 1..n : ~bools[i]
      [] m = "Nand" -> \E i \in 1..n : ~bools[i]

\* C2: All/Any/None/Nand combine booleans by the truth table, an empty list
\* matching under All and None and failing under Any and Nand; the same
\* combinator serves the predicates of a condition set and the condition
\* sets of a Conditions wrapper.
C2_MatchPolicy ==
    pc = "done" =>
        LET c == arg.choose.head.conditions IN
        /\ Len(res.head.sets) = Len(c.sets)
        /\ \A i \in 1..Len(c.sets) :
              LET preds == CondPreds(c.sets[i].conds, arg.ctx) IN
              /\ res.head.sets[i] = Policy(c.sets[i].match_type, preds)
              /\ preds = <<>> =>
                    (res.head.sets[i] <=> c.sets[i].match_type \in {"All", "None"})
        /\ res.head.matched = Policy(c.match_type, res.head.sets)

\* a Nand wrapper over two condition sets matches, one of the sets having
\* lost all its predicates to the feature flag
C2_Witness ==
    /\ pc = "done"
    /\ arg.choose.head.conditions.match_type = "Nand"
    /\ Len(arg.choose.head.conditions.sets) = 2
    /\ \E i \in 1..2 :
          CondPreds(arg.choose.head.conditions.sets[i].conds, arg.ctx) = <<>>
    /\ res.head.matched

\* C9: under PageStyle a cite with no locator renders "5-7" (the <if>
\* branch) when the reference's page is "5-7", and "No page" (the <else>)
\* when the reference has no page.
C9_PageStyleRenders ==
    (pc = "done" /\ arg.choose = PageStyle /\ arg.ctx.cite.locators = <<>>) =>
        LET page == arg.ctx.reference.number["page"] IN
        /\ page = Some(NumericValueFrom(Text_5_7)) =>
              (res.eval.selected = 0 /\ flatten(res.eval.ir) = Text_5_7)
        /\ page = None =>
              (res.eval.selected = 1 /\ flatten(res.eval.ir) = NoPage)

C9_Witness ==
    /\ pc = "done"
    /\ arg.choose = PageStyle
    /\ arg.ctx.reference.number["page"] = Some(NumericValueFrom(Text_5_7))
    /\ flatten(res.eval.ir) = Text_5_7

HasDisambiguateTest(conditions) ==
    \E i \in 1..Len(conditions.sets) : \E j \in 1..Len(conditions.sets[i].conds) :
        conditions.sets[i].conds[j].kind = "Disambiguate"

\* C10: under the Conditionals pass the result is never a ConditionalDisamb;
\* under any other pass, when a reached branch tests disambiguate, the
\* result is ConditionalDisamb of this Choose and of the selected content.
C10_WrapUntilConditionals ==
    pc = "done" =>
        LET ch == arg.choose
            ctx == arg.ctx
        IN  /\ ctx.disamb_pass = Some("Conditionals") =>
                  res.eval.ir.kind # "ConditionalDisamb"
            /\ (/\ ctx.disamb_pass # Some("Conditionals")
                /\ \E i \in Reached(ch, ctx) :
                      HasDisambiguateTest(BranchOf(ch, i).conditions)) =>
                  res.eval.ir =
                      ConditionalDisamb(ch, sequence(BodyOf(ch, FirstMatch(ch, ctx)), ctx))

\* the <else> of a Choose with an <else-if> is selected and comes back wrapped
C10_Witness ==
    /\ pc = "done"
    /\ arg.ctx.disamb_pass = Some("AddNames")
    /\ Len(arg.choose.rest) >= 1
    /\ res.eval.selected = Len(arg.choose.rest) + 1
    /\ res.eval.ir.kind = "ConditionalDisamb"

\* the same evaluation under another disambiguation pass
UnderPass(p) == choose_intermediate(arg.choose, [arg.ctx EXCEPT !.disamb_pass = p])
OtherPasses == {None, Some("AddNames"), Some("AddYearSuffix")}
Wrapped(e) == e.ir.kind = "ConditionalDisamb"

\* C11: a disambiguate=d predicate is true exactly when d equals (the pass
\* is Conditionals); so under any two passes other than Conditionals (none,
\* add names, add year suffix) one Choose and one cite context select the
\* same branch and make the same wrap decision.
C11_SelectionChangesAtConditionals ==
    pc = "done" =>
        /\ \A d \in BOOLEAN : \A m \in {"All", "Any"} :
              eval_condset(CondSet(m, <<CondDisambiguate(d)>>), arg.ctx)
                  = (d = (arg.ctx.disamb_pass = Some("Conditionals")))
        /\ arg.ctx.disamb_pass \in OtherPasses =>
              \A p \in OtherPasses :
                  /\ UnderPass(p).selected = res.eval.selected
                  /\ Wrapped(UnderPass(p)) = Wrapped(res.eval)
                  /\ ContentOf(UnderPass(p).ir) = ContentOf(res.eval.ir)

\* a wrapped selection under the add-names pass, where the Conditionals pass
\* selects another branch
C11_Witness ==
    /\ pc = "done"
    /\ arg.ctx.disamb_pass = Some("AddNames")
    /\ Wrapped(res.eval)
    /\ UnderPass(Some("Conditionals")).selected # res.eval.selected
    /\ UnderPass(None).selected = res.eval.selected

\* C26: when a Choose evaluated under a pass other than Conditionals comes
\* back unwrapped, the Conditionals pass selects the same branch of it for
\* the same cite context; so a Choose whose selection changes at the
\* Conditionals pass was wrapped before it.
C26_UnwrappedSelectionIsFinal ==
    (pc = "done" /\ arg.ctx.disamb_pass \in OtherPasses) =>
        /\ ~Wrapped(res.eval) =>
              UnderPass(Some("Conditionals")).selected = res.eval.selected
        /\ UnderPass(Some("Conditionals")).selected # res.eval.selected =>
              Wrapped(res.eval)

\* the <if> is selected and comes back unwrapped although an <else-if>
\* after it, which was not reached, tests disambiguate
C26_Witness ==
    /\ pc = "done"
    /\ arg.ctx.disamb_pass = Some("AddNames")
    /\ ~Wrapped(res.eval)
    /\ res.eval.selected = 0
    /\ \E i \in 1..Len(arg.choose.rest) : HasDisambiguateTest(arg.choose.rest[i].conditions)
    /\ UnderPass(Some("Conditionals")).selected = 0

\* the predicates of a condition set that are not date-shape tests
NotDateShape(cond) == cond.kind \notin DateShapeKinds
\* the booleans of a condition set, a date-shape test of an absent date
\* variable counting as false
BoolOf(cond, ctx) ==
    CASE cond.kind = "Variable" -> has_variable(ctx, cond.var)
      [] cond.kind = "IsNumeric" -> is_numeric(ctx, cond.var)
      [] cond.kind = "Disambiguate" -> cond.d = (ctx.disamb_pass = Some("Conditionals"))
      [] cond.kind \in DateShapeKinds ->
            /\ IsSome(ctx.reference.date[cond.var.name])
            /\ DateShape(cond.kind, ctx, cond.var.name)

\* C12: with condition_date_parts off a condition set gives the result of
\* the same set with its date-shape predicates deleted; with the feature on
\* every predicate contributes a boolean, a date-shape test being false when
\* the date variable is absent.
C12_DateShapeNoOpinion ==
    pc = "done" =>
        LET c == arg.choose.head.conditions
            on == arg.ctx.style.features.condition_date_parts
        IN  \A i \in 1..Len(c.sets) :
                LET conds == c.sets[i].conds
                    kept == IF on THEN conds ELSE SelectSeq(conds, NotDateShape)
                IN  res.head.sets[i] =
                        Policy(c.sets[i].match_type,
                               [j \in 1..Len(kept) |-> BoolOf(kept[j], arg.ctx)])

\* with the feature off an All set of (page present, issued has a day)
\* matches on a reference with a page and no issued date: a false in the
\* place of the date-shape test would have failed it
C12_Witness ==
    /\ pc = "done"
    /\ ~arg.ctx.style.features.condition_date_parts
    /\ arg.ctx.reference.date["issued"] = None
    /\ arg.choose.head.conditions.sets =
          <<CondSet("All", <<CondVariable(NumberVar("page")), CondHasDay("issued")>>)>>
    /\ res.head.sets = <<TRUE>>
    /\ res.eval.selected = 0

(***************************************************************************)
(* Claims about the numeric parser (checked under SpecNum).                *)
(***************************************************************************)
\* The grammar as the documentation words it, read off the characters: a
\* word is a maximal run of characters that are neither a space nor a
\* separator; a numeric string is a list of words, each holding a digit,
\* with one separator and any spaces between two neighbours.
WordStop == {" "} \cup SepChars
AllDigits(w) == \A i \in 1..Len(w) : w[i] \in DigitChars
HasDigit(w) == \E i \in 1..Len(w) : w[i] \in DigitChars
RECURSIVE Pow10(_)
Pow10(n) == IF n = 0 THEN 1 ELSE 10 * Pow10(n - 1)
\* the value of a digit run of at most nine significant digits
RECURSIVE Decimal(_)
Decimal(w) ==
    IF w = <<>> THEN 0 ELSE DigitVal(w[1]) * Pow10(Len(w) - 1) + Decimal(Tail(w))
Significant(w) == Drop(w, SpanIn(w, {"0"}))
\* the enumerated digit runs of ten or more significant digits are above u32::MAX
FitsU32(w) == Len(Significant(w)) <= 9
WordToken(w) == IF AllDigits(w) THEN Num(Decimal(Significant(w))) ELSE Affixed(w)

\* [ok, toks]: whether s is a numeric string, and its tokens
RECURSIVE Lex(_)
Lex(s) ==
    LET n == SpanNotIn(s, WordStop)
        w == Take(s, n)
        rest == Drop(s, n)
        a == SpanIn(rest, {" "})
        after == Drop(rest, a + 1)
        tail == Lex(Drop(after, SpanIn(after, {" "})))
    IN  IF ~HasDigit(w) \/ (AllDigits(w) /\ ~FitsU32(w)) THEN [ok |-> FALSE, toks |-> <<>>]
        ELSE IF rest = <<>> THEN [ok |-> TRUE, toks |-> <<WordToken(w)>>]
        ELSE IF a >= Len(rest) \/ rest[a + 1] \notin SepChars \/ ~tail.ok
             THEN [ok |-> FALSE, toks |-> <<>>]
        ELSE [ok |-> TRUE,
              toks |-> <<WordToken(w),
                         CASE rest[a + 1] = "," -> Comma
                           [] rest[a + 1] = "-" -> Hyphen
                           [] rest[a + 1] = "&" -> Ampersand>> \o tail.toks]

\* C13: NumericValue::from(s) is Tokens only when s as a whole is a numeric
\* string; otherwise, a lone leading hyphen, a double comma, a trailing
\* comma or word, numbers with no separator and a number too large for 32
\* bits included, it is Str(s) with s unchanged; every input has a result.
C13_ParseAllOrNothing ==
    pc = "parsed" =>
        /\ res.value.kind \in {"Tokens", "Str"}
        /\ res.value.kind = "Tokens" => (Lex(arg).ok /\ num_tokens(arg).len = Len(arg))
        /\ ~Lex(arg).ok => res.value = Str(arg)
        /\ res.value.kind = "Str" => res.value.str = arg
        /\ arg \in {Text_2nd_edition, Text_minus_5, Text_5_comma_comma_7, Text_5_7_9_11,
                     Text_5_comma, Text_2_5_9_edition, Text_u32_max_plus_1}
              => res.value = Str(arg)

\* the parser consumed a prefix of the input and left a remainder
C13_Witness ==
    /\ pc = "parsed"
    /\ arg = Text_2_5_9_edition
    /\ num_tokens(arg).toks = <<Num(2), Hyphen, Num(5), Comma, Num(9)>>
    /\ num_tokens(arg).len = 8
    /\ res.value = Str(Text_2_5_9_edition)

\* C14: an accepted input gives its words and separators in order: a word
\* of digits is Num of its value, any other word holding a digit (digits
\* followed or preceded by other characters) is one Affixed of exactly that
\* word, and each separator with its surrounding spaces is one Comma, Hyphen
\* or Ampersand.
C14_TokensOfGrammar ==
    pc = "parsed" =>
        /\ Lex(arg).ok => res.value = Tokens(Lex(arg).toks)
        /\ arg = Text_2_4 => res.value = Tokens(<<Num(2), Comma, Num(4)>>)
        /\ arg \in {Text_2_4_5, Text_2_4_5_spaced} =>
              res.value = Tokens(<<Num(2), Hyphen, Num(4), Comma, Num(5)>>)
        /\ arg \in {Text_2nd, Text_2b, Text_L2, Text_L2tp, Text_bracket_3} =>
              res.value = Tokens(<<Affixed(arg)>>)
        /\ arg = Text_2nd_4th =>
              res.value = Tokens(<<Affixed(Text_2nd), Hyphen, Affixed(<<"4", "t", "h">>)>>)

\* a suffixed number, a separator with spaces around it and a plain number
C14_Witness ==
    /\ pc = "parsed"
    /\ arg = Text_2b_amp_02
    /\ res.value = Tokens(<<Affixed(<<"2", "b">>), Ampersand, Num(2)>>)

\* the text of a token sequence has its separators as ", ", "-" and " & "
Normalized(text) ==
    \A i \in 1..Len(text) :
        LET before == IF i > 1 THEN text[i - 1] ELSE "^"
            next == IF i < Len(text) THEN text[i + 1] ELSE "$"
            next2 == IF i + 1 < Len(text) THEN text[i + 2] ELSE "$"
        IN  /\ text[i] = "," => (before # " " /\ next = " " /\ next2 # " ")
            /\ text[i] = "-" => (before # " " /\ next # " ")
            /\ text[i] = "&" => (before = " " /\ next = " " /\ next2 # " ")
            /\ text[i] = " " => (before \in {",", "&"} \/ next = "&")

\* C15: for an input that parses to Tokens(ts), to_string() is the
\* normalized text of ts and parsing that text gives Tokens(ts) again;
\* to_string of Str(s) is s.
C15_RoundTrip ==
    pc = "parsed" =>
        /\ res.value.kind = "Tokens" =>
              /\ res.again = res.value
              /\ Normalized(res.text)
              /\ to_string(res.again) = res.text
        /\ res.value.kind = "Str" => res.text = arg

\* an input with leading zeros and spaced separators, whose text differs
\* from the input
C15_Witness ==
    /\ pc = "parsed"
    /\ arg = Text_02_amp_2b_2
    /\ res.text = <<"2", " ", "&", " ", "2", "b", "-", "2">>
    /\ res.again = res.value
    /\ res.value.kind = "Tokens"

\* C16: a Tokens value is not empty and has odd length, a Num or Affixed at
\* each odd position (counting from one) and a separator at each even one;
\* an Affixed holds a digit and no space or separator; is_numeric() is true
\* exactly for Tokens and is_multiple() exactly for Tokens of more than one
\* token.
C16_TokensWellFormed ==
    pc = "parsed" =>
        LET ts == res.value.tokens IN
        /\ res.value.kind = "Tokens" =>
              /\ ts # <<>>
              /\ Len(ts) % 2 = 1
              /\ \A i \in 1..Len(ts) :
                    /\ i % 2 = 1 => ts[i].kind \in {"Num", "Affixed"}
                    /\ i % 2 = 0 => ts[i].kind \in {"Comma", "Hyphen", "Ampersand"}
                    /\ ts[i].kind = "Affixed" =>
                          /\ HasDigit(ts[i].text)
                          /\ \A j \in 1..Len(ts[i].text) : ts[i].text[j] \notin WordStop
        /\ res.numeric <=> res.value.kind = "Tokens"
        /\ res.multiple <=> (res.value.kind = "Tokens" /\ Len(ts) > 1)

\* three tokens, the last one affixed
C16_Witness ==
    /\ pc = "parsed"
    /\ res.value.kind = "Tokens"
    /\ Len(res.value.tokens) = 3
    /\ res.value.tokens[3].kind = "Affixed"
    /\ res.multiple

\* C17: page_first() is Tokens([Num(n)]) when the value is Tokens and its
\* first token is Num(n), and nothing when the first token is Affixed or the
\* value is Str; page_first of "2-5, 9" is Tokens([Num(2)]).
C17_PageFirst ==
    pc = "parsed" =>
        /\ IF res.value.kind = "Tokens" /\ res.value.tokens[1].kind = "Num"
           THEN res.first = Some(Tokens(<<Num(res.value.tokens[1].num)>>))
           ELSE res.first = None
        /\ arg = Text_2_5_9 => res.first = Some(Tokens(<<Num(2)>>))

\* an affixed first token followed by a plain number: nothing
C17_Witness ==
    /\ pc = "parsed"
    /\ res.value.kind = "Tokens"
    /\ res.value.tokens[1].kind = "Affixed"
    /\ Len(res.value.tokens) > 1
    /\ res.value.tokens[3].kind = "Num"
    /\ res.first = None

(***************************************************************************)
(* Claims about the order of cluster positions (checked under SpecOrd).    *)
(***************************************************************************)
\* a < b, as PartialOrd::lt gives it
Lt(i, j) == res.partial[i][j] = Some("Less")

\* C18: the positions are strictly totally ordered (one of <, =, > between
\* any two, = only for equal positions, < transitive); Note(Single(a)) <
\* Note(Single(b)) when a < b; Note(Single(n)) < Note(Multi(n, d)); Multi
\* by note number, then by discriminant; InText(a) < InText(b) when a < b;
\* every InText below every Note; and partial_cmp is Some of what the
\* derived Ord answers.
C18_PositionsTotallyOrdered ==
    pc = "compared" =>
        /\ \A i, j \in 1..3 :
              LET x == arg[i]
                  y == arg[j]
              IN  /\ res.partial[i][j] = Some(res.total[i][j])
                  /\ res.total[i][j] = "Equal" <=> x = y
                  /\ Lt(i, j) <=> res.partial[j][i] = Some("Greater")
                  /\ (x.kind = "InText" /\ y.kind = "Note") => Lt(i, j)
                  /\ (x.kind = y.kind /\ x.intra = "Single" /\ y.intra = "Single"
                          /\ x.n < y.n) => Lt(i, j)
                  /\ (x.kind = "Note" /\ y.kind = "Note" /\ x.intra = "Single"
                          /\ y.intra = "Multi" /\ x.n = y.n) => Lt(i, j)
                  /\ (x.kind = "Note" /\ y.kind = "Note" /\ x.intra = "Multi"
                          /\ y.intra = "Multi") =>
                        (Lt(i, j) <=> (x.n < y.n \/ (x.n = y.n /\ x.d < y.d)))
        /\ (Lt(1, 2) /\ Lt(2, 3)) => Lt(1, 3)

\* InText(2) < Note(Single(1)) < Note(Multi(1, 0))
C18_Witness ==
    /\ pc = "compared"
    /\ arg = <<InText(2), NoteSingle(1), NoteMulti(1, 0)>>
    /\ Lt(1, 2) /\ Lt(2, 3) /\ Lt(1, 3)
    /\ res.total[3][1] = "Greater"

\* C27: the order of note positions follows the note number: of two note
\* positions, Single or Multi, the one with the smaller note number is the
\* smaller one, for < and for the order that sorting uses.
C27_OrderFollowsNoteNumber ==
    pc = "compared" =>
        \A i, j \in 1..3 :
            (/\ arg[i].kind = "Note"
             /\ arg[j].kind = "Note"
             /\ note_number(arg[i]) < note_number(arg[j])) =>
                (Lt(i, j) /\ res.total[i][j] = "Less")

\* C28: sub_note returns None for an in-text position and, for a note
\* position, Some of the difference of the two note numbers whatever the
\* discriminants; the subtraction never underflows.
C28_SubNoteNeverUnderflows ==
    pc = "subtracted" =>
        /\ arg[1].kind = "InText" => res.sub = None
        /\ arg[1].kind = "Note" =>
              /\ note_number(arg[1]) >= note_number(arg[2])
              /\ res.sub = Some(note_number(arg[1]) - note_number(arg[2]))

(***************************************************************************)
(* Claims about the context accessors (checked under SpecCtx).             *)
(***************************************************************************)
\* the reference holds the variable
RefHolds(refr, var) ==
    LET map == CASE var.cat = "Ordinary" -> refr.ordinary
                 [] var.cat = "Number" -> refr.number
                 [] var.cat = "Name" -> refr.name
                 [] var.cat = "Date" -> refr.date
    IN  var.name \in DOMAIN map /\ map[var.name] # None

\* C19: has_variable answers locator from the cite's locators, page-first
\* from the reference's page being present and numeric,
\* first-reference-note-number from the position's note number and
\* citation-number from the bibliography number, whatever the reference
\* holds under those names; the dummy name variable is never present; every
\* other variable is present exactly when the reference holds it; and
\* is_numeric is false for every variable that is not a number variable.
C19_HasVariable ==
    pc = "asked" =>
        LET ctx == arg.ctx
            var == arg.var
            page == ctx.reference.number["page"]
        IN  /\ res.has <=>
                  CASE var = NumberVar("locator") -> Len(ctx.cite.locators) >= 1
                    [] var = NumberVar("page-first") ->
                          page # None /\ Unwrap(page).kind = "Tokens"
                    [] var = NumberVar("first-reference-note-number") ->
                          ctx.position[2] # None
                    [] var = NumberVar("citation-number") -> ctx.bib_number # None
                    [] var = NameVar("dummy") -> FALSE
                    [] OTHER -> RefHolds(ctx.reference, var)
            /\ var.cat # "Number" => ~res.numeric

\* the reference holds a value named locator and the cite has no locator:
\* the locator is absent
C19_Witness ==
    /\ pc = "asked"
    /\ arg.var = NumberVar("locator")
    /\ RefHolds(arg.ctx.reference, NumberVar("locator"))
    /\ arg.ctx.cite.locators = <<>>
    /\ ~res.has

\* the value is Tokens whose first token is a plain number
StartsWithNum(o) ==
    /\ IsSome(o)
    /\ Unwrap(o).kind = "Tokens"
    /\ Unwrap(o).tokens # <<>>
    /\ Unwrap(o).tokens[1].kind = "Num"

\* C25 as stated: for every number variable, has_variable is true exactly
\* when get_number returns a value, and is_numeric exactly when that value
\* is Tokens.
C25_PresenceIsValue ==
    (pc = "asked" /\ arg.var.cat = "Number") =>
        /\ res.has <=> IsSome(res.number)
        /\ res.numeric <=> (IsSome(res.number) /\ Unwrap(res.number).kind = "Tokens")

\* C25, amended: is_numeric is true exactly when get_number returns a Tokens
\* value; has_variable is true exactly when get_number returns a value for
\* every number variable but page-first; page-first is present exactly when
\* the page is Tokens, has a value exactly when the page is Tokens that start
\* with a plain number, and so has a value only when it is present.
C25_PresenceAndValue ==
    (pc = "asked" /\ arg.var.cat = "Number") =>
        LET page == arg.ctx.reference.number["page"] IN
        /\ res.numeric <=> (IsSome(res.number) /\ Unwrap(res.number).kind = "Tokens")
        /\ arg.var.name # "page-first" => (res.has <=> IsSome(res.number))
        /\ arg.var.name = "page-first" =>
              /\ res.has <=> (IsSome(page) /\ Unwrap(page).kind = "Tokens")
              /\ IsSome(res.number) <=> StartsWithNum(page)
              /\ IsSome(res.number) => res.has

\* the page "2nd" is one affixed token: page-first is present and has no value
C25_Witness ==
    /\ pc = "asked"
    /\ arg.var = NumberVar("page-first")
    /\ arg.ctx.reference.number["page"] = Some(Tokens(<<Affixed(Text_2nd)>>))
    /\ res.has
    /\ res.number = None

(***************************************************************************)
(* Claims about building a style (checked under SpecStyle).                *)
(***************************************************************************)
\* the macro names the <text> elements of a built style refer to
MacroRefs(style) ==
    {el.name : el \in {e \in Range(style.citation.layout.elements)
                            \cup UNION {Range(style.macros[n]) : n \in DOMAIN style.macros} :
                         e.kind = "Macro"}}

\* C20, as stated: every style that Style::from_node accepts has an entry in
\* its macro table for each <text macro=".."> of its layout and macros, and
\* evaluating it never panics.
C20_UnknownMacroCaughtAtBuild ==
    /\ (pc \in {"built", "evaluated"} /\ res.style.ok) =>
          MacroRefs(res.style.val) \subseteq DOMAIN res.style.val.macros
    /\ pc = "evaluated" => res.ir # Panic

(***************************************************************************)
(* Claims about building a <choose> (checked under SpecChoose).            *)
(***************************************************************************)
\* one <if>, then zero or more <else-if>, then at most one <else>
ChooseShape(els) ==
    /\ els # <<>>
    /\ els[1].tag = "if"
    /\ \A i \in 2..Len(els) :
          \/ els[i].tag = "else-if"
          \/ (els[i].tag = "else" /\ i = Len(els))
\* every child builds on its own
ChildrenBuild(els) ==
    \A i \in 1..Len(els) :
        IF els[i].tag = "else" THEN Else_from_node(els[i]).ok
        ELSE IfThen_from_node(els[i]).ok
ElseIfsOf(els) == SelectSeq(els, LAMBDA el : el.tag = "else-if")

SetterOps == {"set_references", "insert_reference", "init_clusters", "insert_cluster",
              "remove_cluster", "renumber_clusters", "store_locales"}
DemandOps == {"compute", "batched_updates", "drain", "get_cluster"}

\* the entries a step appended to the update log
Appended == IF Len(queue') > Len(queue) THEN SubSeq(queue', Len(queue) + 1, Len(queue'))
            ELSE <<>>

\* C3, as stated: once every cluster has been computed, a compute() that
\* follows the replacement of one reference by insert_reference does not
\* execute built_cluster(x) again for a cluster x none of whose cites refers
\* to that reference, and appends no update for x to the log.
C3_UnrelatedReferenceKeepsCache ==
    [][(lastCall'.op = "compute" /\ calls' # calls /\ since_compute[1] = "reference") =>
          \A x \in Range(db.cluster_ids) :
              since_compute[2] \notin RefsCitedBy(db, x) =>
                  /\ x \notin Range(lastCall'.executed)
                  /\ memo'[x] = memo[x]
                  /\ x \notin Range(Appended)]_vars

\* C4, as stated: when batched_updates() or drain() returns the log is
\* empty; a batched_updates() that follows a drain with no input set in
\* between returns no clusters; and with recording off the log is always
\* empty and batched_updates() returns the empty summary.
C4_DrainedLogStaysEmpty ==
    [][calls' # calls =>
          /\ lastCall'.op \in {"batched_updates", "drain"} => queue' = <<>>
          /\ (lastCall'.op = "batched_updates" /\ since_drain) => lastCall'.ret = <<>>
          /\ ~save_updates =>
                /\ queue' = <<>>
                /\ lastCall'.op = "batched_updates" => lastCall'.ret = <<>>]_vars

\* C5: a call of a setter executes no derived query and leaves the update
\* log as it was; the log grows only in compute, batched_updates, drain and
\* get_cluster.
C5_SettersAreLazy ==
    [][calls' # calls =>
          /\ lastCall'.op \in SetterOps =>
                /\ queue' = queue
                /\ lastCall'.executed = <<>>
                /\ \A x \in ClusterIds : memo'[x] # memo[x] => memo'[x] = None
          /\ queue' # queue => lastCall'.op \in DemandOps]_vars

\* a setter was called on a computed document with a recorded update: the
\* memo of its cluster is gone and the log is as it was
C5_Witness ==
    /\ lastCall.op = "insert_cluster"
    /\ since_compute = <<"other">>
    /\ queue # <<>>
    /\ memo[lastCall.id] = None
    /\ \E x \in ClusterIds : IsSome(memo[x])

RenumberViolations ==
    LET ids == [i \in 1..Len(lastCall.writes) |-> lastCall.writes[i][2]]
        n(i) == Unwrap(db.cluster_note_number[ids[i]]).n
    IN  {<<"NonExistentCluster", ids[i]>> :
            i \in {j \in 1..Len(ids) : ids[j] \notin Range(db.cluster_ids)}}
        \cup {<<"NonMonotonicNoteNumber", n(j)>> :
                j \in {k \in 1..Len(ids) : \E i \in 1..(k - 1) : n(k) < n(i)}}

\* C8, as stated: a renumber_clusters call whose mappings name a cluster that
\* does not exist, or give a note number lower than an earlier one, returns
\* the matching ReorderingError.
C8_RenumberReportsError ==
    lastCall.op = "renumber_clusters" =>
        (RenumberViolations # {} => lastCall.ret \in RenumberViolations)

NoDuplicates(s) == \A i \in 1..Len(s), j \in 1..Len(s) : s[i] = s[j] => i = j

\* C24: whatever init_clusters, insert_cluster, remove_cluster and
\* renumber_clusters calls were made, the active cluster-id list names no id
\* twice; and an insert_cluster of an id that is in the list leaves the list
\* as it is and sets only that cluster's cite list and position.
C24_ClusterIdsUnique ==
    /\ [](NoDuplicates(db.cluster_ids))
    /\ [][(calls' = calls + 1 /\ lastCall'.op = "insert_cluster"
           /\ lastCall'.id \in Range(db.cluster_ids)) =>
             /\ db'.cluster_ids = db.cluster_ids
             /\ \A x \in ClusterIds \ {lastCall'.id} :
                   /\ db'.cluster_cites[x] = db.cluster_cites[x]
                   /\ db'.cluster_note_number[x] = db.cluster_note_number[x]]_vars

\* C23: insert_reference(r) adds or replaces the one reference r and keeps
\* the others: afterwards all_keys is the earlier set plus r.id, and
\* get_reference of every other id returns what it returned before.
C23_InsertReferenceKeepsOthers ==
    [][(calls' = calls + 1 /\ lastCall'.op = "insert_reference") =>
          LET id == lastCall'.writes[1][2] IN
          /\ db'.all_keys = db.all_keys \cup {id}
          /\ \A k \in RefIds \ {id} : ReferenceQuery(db', k) = ReferenceQuery(db, k)]_vars

(***************************************************************************)
(* Claims about the parallel compute(), under SpecPar.                     *)
(***************************************************************************)
RECURSIVE Count(_, _)
Count(s, x) == IF s = <<>> THEN 0 ELSE (IF s[1] = x THEN 1 ELSE 0) + Count(Tail(s), x)

\* the workers whose WillExecute event of built_cluster(x) is not yet recorded
Unrecorded(x) ==
    {w \in Workers : /\ worker[w].key = ClusterKey(x)
                     /\ worker[w].kind = "WillExecute"
                     /\ worker[w].pc \in {"event", "locked"}}

\* C7: in a parallel compute() every query is executed at most once, a
\* memoized result of built_cluster is the result of one whole execution,
\* the mutex of the queue has one holder at a time, and with recording on the
\* shared queue holds one update for every execution of built_cluster whose
\* event has been handled (none with recording off).
C7_ParallelCompute ==
    /\ \A k \in Keys : execs[k] <= 1
    /\ \A x \in ClusterIds : IsSome(memo[x]) => memo[x] = Executed(db, x)
    /\ \A w \in Workers : worker[w].pc = "locked" <=> qlock = w
    /\ \A x \in ClusterIds :
          Count(queue, x) = IF save_updates
                            THEN execs[ClusterKey(x)] - Cardinality(Unrecorded(x))
                            ELSE 0

\* two workers have demanded the same cluster: one executes it after its
\* update was recorded, the other waits
C7_Witness ==
    /\ save_updates
    /\ \E w1 \in Workers, w2 \in Workers :
          /\ w1 # w2
          /\ worker[w1].key.query = "built_cluster"
          /\ worker[w1].key = worker[w2].key
          /\ worker[w1].pc = "execute"
          /\ worker[w2].pc = "demand"
          /\ Count(queue, worker[w1].key.key) = 1

\* the workers that have taken the query k and not yet returned from it
Busy(k) == {w \in Workers : worker[w].key = k /\ worker[w].pc # "idle"}
ActiveIds == Range(db.cluster_ids)
PhaseOrder == {<<"idle", "cites">>, <<"cites", "year_suffixes">>,
               <<"year_suffixes", "clusters">>, <<"clusters", "done">>}

\* C22: compute() demands built_cluster for every id of the active cluster
\* list and for no other id, and when it has returned no active cluster is
\* stale (a get_cluster of it executes nothing).  The parallel compute() goes
\* through its phases in order: year_suffixes is demanded only when every
\* per-cite demand has returned, and a cluster is built only after
\* year_suffixes has returned.
C22_ComputeDemandsActiveClusters ==
    /\ [](/\ phase \in {"year_suffixes", "clusters", "done"} =>
               \A c \in Range(all_cite_ids(db)) : c \in ir_memo /\ Busy(IrKey(c)) = {}
          /\ \A x \in ClusterIds :
                (execs[ClusterKey(x)] > 0 \/ Busy(ClusterKey(x)) # {}) =>
                    (x \in ActiveIds /\ phase \in {"clusters", "done"})
          /\ phase = "done" => \A x \in ActiveIds : ~Stale(db, memo, x)
          /\ lastCall.op = "compute" =>
               /\ Range(lastCall.executed) \subseteq ActiveIds
               /\ \A x \in ActiveIds : ~Stale(db, memo, x))
    /\ [][phase' # phase => <<phase, phase'>> \in PhaseOrder]_vars

\* a parallel compute() has returned after it executed the per-cite query
\* of a cite and built both clusters of the document
C22_Witness ==
    /\ phase = "done"
    /\ ActiveIds = ClusterIds
    /\ \A x \in ClusterIds : execs[ClusterKey(x)] = 1
    /\ \E c \in CiteIds : execs[IrKey(c)] = 1

(***************************************************************************)
(* Claims about one element evaluation (checked under SpecElement).        *)
(***************************************************************************)
\* the text an element has to render, if any: the variable's value where the
\* reference or the cite holds it, the number's value, the term provider's
\* text for the selector
TermText(ctx, sel, pl) ==
    IF "en-GB" \in DOMAIN ctx.style.locale_overrides
    THEN get_text_term(ctx.style.locale_overrides["en-GB"], sel, pl) ELSE None
NumberText(ctx, v) ==
    IF IsSome(get_number(ctx, v)) THEN Some(to_string(Unwrap(get_number(ctx, v)))) ELSE None
LabelText(ctx, el) ==
    LET n == get_number(ctx, el.var)
        sel == from_number_variable(ctx.cite.locator_type, el.var, el.form)
    IN  IF ~IsSome(n) \/ ~IsSome(sel) THEN None
        ELSE TermText(ctx, Unwrap(sel),
                      CASE el.plural = "Contextual" -> Len(Unwrap(n).tokens) > 1
                        [] el.plural = "Always" -> TRUE
                        [] el.plural = "Never" -> FALSE)
ValueOf(el, ctx) ==
    CASE el.kind = "Variable" /\ el.var.cat = "Ordinary" ->
            MapGet(ctx.reference.ordinary, el.var.name)
      [] el.kind = "Variable" /\ el.var.cat = "Number" -> NumberText(ctx, el.var.name)
      [] el.kind = "Number" -> NumberText(ctx, el.var)
      [] el.kind = "Term" -> TermText(ctx, el.sel, el.plural)
      [] el.kind = "Label" -> LabelText(ctx, el)

\* C21: the evaluation of a variable, number, label or term element never
\* panics: it returns the empty rendered leaf when the value, the number or
\* the term's text is missing and a rendered leaf with text when it is there.
C21_EvaluationNeverFails ==
    pc = "evaluated" =>
        /\ res.ir.kind = "Rendered"
        /\ IsSome(res.ir.text) <=> IsSome(ValueOf(arg.el, arg.ctx))

\* C29: <text variable="v"/> and <number variable="v"/> resolve the same
\* value for every number variable v: the text element renders exactly when
\* get_number(v) returns a value, and renders that value's to_string().
C29_TextAndNumberAgree ==
    (pc = "evaluated" /\ IsSome(NumberVarOf(arg.el))) =>
        res.variable = Rendered(IF IsSome(res.number)
                                THEN Some(to_string(Unwrap(res.number))) ELSE None)

=============================================================================
